---- MODULE Spec2Model ----
(***************************************************************************)
(* RustBucket: a register virtual machine (src/src/vm) and its two-pass    *)
(* assembler (src/src/assembler.rs, src/src/assembler/instruction.rs).     *)
(*                                                                         *)
(* The CPU is modelled at the granularity of CPU::run's loop: one step     *)
(* for the loop test, one for CPU::fetch, one for CPU::execute.  A Rust    *)
(* panic (index out of bounds) is the terminal status "panic".             *)
(***************************************************************************)
EXTENDS Integers, Sequences, FiniteSets, TLC

VARIABLES
    config,      \* VMConfig the CPU was built from (cpu.rs:12)
    registers,   \* CPU.registers : [0..num_registers-1 -> u8]
    pc,          \* CPU.pc
    memory,      \* CPU.memory : [0..memory_size-1 -> u8]
    sp,          \* CPU.sp
    flags,       \* CPU.flags
    call_stack,  \* CPU.call_stack : Seq(usize)
    status,      \* position of the caller/run loop: "idle", "running",
                 \* "decoded", "ok", "err", "panic"
    op,          \* the Opcode returned by fetch, about to be executed
    err,         \* the VMError returned by run (when status = "err")
    out,         \* what OUT has printed to standard output
    program,     \* the argument of the last load_program call
    ipc,         \* history: address the current opcode byte was fetched from
    last,        \* history: the instruction executed last and the state before it
    assembler,   \* an Assembler instance (assembler.rs:77-85)
    asm_calls,   \* history: the assemble calls made on it, <<text, result>>
    encoded      \* history: one source line and what each encoder made of it

cpu_vars == <<config, registers, pc, memory, sp, flags, call_stack, status, op, err,
              out, program, ipc, last>>

asm_vars == <<assembler, asm_calls, encoded>>

vars == <<cpu_vars, asm_vars>>

----------------------------------------------------------------------------
(* Program constants (src/src/vm/mod.rs)                                   *)

DEFAULT_MEMORY_SIZE == 256
DEFAULT_STACK_SIZE == 64
DEFAULT_NUM_REGISTERS == 8
DEFAULT_PC_START == 0
DEFAULT_SP_START == 255

(* Bounds of the model                                                     *)

SmallMemorySize == 12     \* memory_size of the second, small configuration
SmallStackSize == 4       \* its stack_size
SmallNumRegisters == 4    \* its num_registers
MaxInstr == 3             \* instructions per generated program
MaxCallDepth == 4         \* call_stack entries explored
MaxOut == 3               \* values printed by OUT explored

Byte == 0..255

\* VMConfig::default and a configuration made with VMConfig::builder
DefaultConfig ==
    [memory_size |-> DEFAULT_MEMORY_SIZE, stack_size |-> DEFAULT_STACK_SIZE,
     num_registers |-> DEFAULT_NUM_REGISTERS, pc_start |-> DEFAULT_PC_START,
     sp_start |-> DEFAULT_SP_START, debug |-> FALSE]

SmallConfig ==
    [memory_size |-> SmallMemorySize, stack_size |-> SmallStackSize,
     num_registers |-> SmallNumRegisters, pc_start |-> DEFAULT_PC_START,
     sp_start |-> DEFAULT_SP_START, debug |-> FALSE]

Configs == {DefaultConfig, SmallConfig}

----------------------------------------------------------------------------
(* Opcode (src/src/vm/cpu.rs fetch, src/src/vm/opcode.rs)                  *)

Opcode(k, a, b) == [k |-> k, a |-> a, b |-> b]

NoOpcode == Opcode("None", 0, 0)

\* opcode bytes whose fetch reads one operand byte
OneOperandBytes == {1, 2, 3, 16, 17, 32, 33, 34, 35}
\* opcode bytes whose fetch reads two operand bytes
TwoOperandBytes == {4, 48, 49, 50, 51, 67}

\* the decoding without the 0x44 arm
OpcodeKindWithoutJne(byte) ==
    CASE byte = 1 -> "Inc"
      [] byte = 2 -> "Dec"
      [] byte = 3 -> "Out"
      [] byte = 4 -> "Mov"
      [] byte = 16 -> "Push"
      [] byte = 17 -> "Pop"
      [] byte = 18 -> "Call"
      [] byte = 19 -> "Ret"
      [] byte = 32 -> "Load"
      [] byte = 33 -> "Store"
      [] byte = 34 -> "LdIdx"
      [] byte = 35 -> "StIdx"
      [] byte = 48 -> "Add"
      [] byte = 49 -> "Sub"
      [] byte = 50 -> "Mul"
      [] byte = 51 -> "Div"
      [] byte = 64 -> "Jmp"
      [] byte = 65 -> "Jeq"
      [] byte = 66 -> "Jgt"
      [] byte = 67 -> "Cmp"
      [] byte = 255 -> "Halt"
      [] OTHER -> "Unknown"

OpcodeKind(byte) ==
    CASE byte = 1 -> "Inc"
      [] byte = 2 -> "Dec"
      [] byte = 3 -> "Out"
      [] byte = 4 -> "Mov"
      [] byte = 16 -> "Push"
      [] byte = 17 -> "Pop"
      [] byte = 18 -> "Call"
      [] byte = 19 -> "Ret"
      [] byte = 32 -> "Load"
      [] byte = 33 -> "Store"
      [] byte = 34 -> "LdIdx"
      [] byte = 35 -> "StIdx"
      [] byte = 48 -> "Add"
      [] byte = 49 -> "Sub"
      [] byte = 50 -> "Mul"
      [] byte = 51 -> "Div"
      [] byte = 64 -> "Jmp"
      [] byte = 65 -> "Jeq"
      [] byte = 66 -> "Jgt"
      [] byte = 67 -> "Cmp"
      [] byte = 68 -> "Jne"
      [] byte = 255 -> "Halt"
      [] OTHER -> "Unknown"

MemLen(mem) == Cardinality(DOMAIN mem)

\* CPU::fetch from a pc < memory.len(): the decoded opcode, the advanced pc,
\* and whether an operand read indexed past the end of memory (a panic; pc
\* keeps the value it had at the failing read).
FetchResult(mem, p) ==
    LET byte == mem[p]
        n == MemLen(mem)
    IN  IF byte \in OneOperandBytes
        THEN IF p + 1 >= n
             THEN [panic |-> TRUE, pc |-> p + 1, op |-> NoOpcode]
             ELSE [panic |-> FALSE, pc |-> p + 2,
                   op |-> Opcode(OpcodeKind(byte), mem[p + 1], 0)]
        ELSE IF byte \in TwoOperandBytes
        THEN IF p + 1 >= n
             THEN [panic |-> TRUE, pc |-> p + 1, op |-> NoOpcode]
             ELSE IF p + 2 >= n
             THEN [panic |-> TRUE, pc |-> p + 2, op |-> NoOpcode]
             ELSE [panic |-> FALSE, pc |-> p + 3,
                   op |-> Opcode(OpcodeKind(byte), mem[p + 1], mem[p + 2])]
        ELSE IF OpcodeKind(byte) = "Unknown"
        THEN [panic |-> FALSE, pc |-> p + 1, op |-> Opcode("Unknown", byte, 0)]
        ELSE [panic |-> FALSE, pc |-> p + 1, op |-> Opcode(OpcodeKind(byte), 0, 0)]

----------------------------------------------------------------------------
(* VMError (src/src/vm/error.rs)                                           *)

VMError(k, v) == [k |-> k, v |-> v]

NoError == VMError("None", 0)

----------------------------------------------------------------------------
(* 8-bit arithmetic of the execute arms: u8 wrapping_add, wrapping_sub...  *)

SaturatingAdd(x, y) == IF x + y > 255 THEN 255 ELSE x + y

WrappingAdd(x, y) == IF x + y > 255 THEN x + y - 256 ELSE x + y

SaturatingSub(x, y) == IF x >= y THEN x - y ELSE 0

WrappingSub(x, y) == IF x >= y THEN x - y ELSE x + 256 - y

WrappingMul(x, y) == (x * y) % 256

WrappingDiv(x, y) == x \div y

\* set_zero_flag / set_greater_flag: set or clear one bit of the flags byte
SetBit(f, bit, value) ==
    LET isSet == (f \div bit) % 2 = 1
    IN  IF value THEN (IF isSet THEN f ELSE f + bit)
                 ELSE (IF isSet THEN f - bit ELSE f)

\* a set_zero_flag that sets the bit but never clears it
set_zero_flag_sticky(f, value) == IF value THEN SetBit(f, 1, TRUE) ELSE f

set_zero_flag(f, value) == SetBit(f, 1, value)

\* a set_greater_flag that uses bit 2
set_greater_flag_bit2(f, value) == SetBit(f, 4, value)

set_greater_flag(f, value) == SetBit(f, 2, value)

ZeroFlagIsGreater(f) == (f \div 2) % 2 = 1

ZeroFlag(f) == f % 2 = 1

GreaterFlag(f) == (f \div 2) % 2 = 1

----------------------------------------------------------------------------
(* CPU::new (src/src/vm/cpu.rs:22-36)                                      *)

\* the stack pointer a new CPU starts with
InitialSp(cfg) == cfg.memory_size - cfg.stack_size

NewRegisters(cfg) == [i \in 0..(cfg.num_registers - 1) |-> 0]

NewMemory(cfg) == [i \in 0..(cfg.memory_size - 1) |-> 0]

NoLast == [op |-> NoOpcode, at |-> 0, sp |-> 0, registers |-> <<>>, arg |-> 0]

----------------------------------------------------------------------------
(* CPU::load_program (src/src/vm/cpu.rs:42-46)                             *)

\* memory[..program.len()].copy_from_slice(program)
CopyFromSlice(mem, prog) ==
    [i \in DOMAIN mem |-> IF i < Len(prog) THEN prog[i + 1] ELSE mem[i]]

----------------------------------------------------------------------------
(* Pieces shared by the arms of CPU::execute (src/src/vm/cpu.rs:137-293)   *)

Executing(k) == status = "decoded" /\ op.k = k

\* the arms that start with `self.memory[self.pc]`, their own operand read
ExecOperandKinds ==
    {"Jmp", "Jeq", "Jgt", "Jne", "Call", "Load", "Store", "LdIdx", "StIdx"}

\* history: the instruction being executed and the state it started from
Remember ==
    last' = [op |-> op, at |-> ipc, sp |-> sp, registers |-> registers,
             arg |-> IF op.k \in ExecOperandKinds /\ pc < MemLen(memory)
                     THEN memory[pc] ELSE 0]

\* the arm falls through to Ok(()) and the loop of run goes on
Continue == status' = "running" /\ err' = err

\* the arm returns Err(e), which run propagates with `?`
Fault(e) == status' = "err" /\ err' = e

\* an index out of bounds: the thread panics
Panic == status' = "panic" /\ err' = err

Fixed == UNCHANGED <<config, program, op, ipc, asm_vars>>

ValidReg(r) == r \in DOMAIN registers

MovValueOfRegister(regs, src) == IF src \in DOMAIN regs THEN regs[src] ELSE src

\* the value Opcode::Mov(dst, src) stores into registers[dst]
MovValue(regs, src) == src

ExecInc ==
    /\ Executing("Inc") /\ Remember /\ Fixed
    /\ IF op.a >= config.num_registers
       THEN Fault(VMError("InvalidRegister", op.a)) /\ UNCHANGED registers
       ELSE Continue /\ registers' = [registers EXCEPT ![op.a] = WrappingAdd(@, 1)]
    /\ UNCHANGED <<pc, memory, sp, flags, call_stack, out>>

ExecDec ==
    /\ Executing("Dec") /\ Remember /\ Fixed
    /\ IF op.a >= config.num_registers
       THEN Fault(VMError("InvalidRegister", op.a)) /\ UNCHANGED registers
       ELSE Continue /\ registers' = [registers EXCEPT ![op.a] = WrappingSub(@, 1)]
    /\ UNCHANGED <<pc, memory, sp, flags, call_stack, out>>

ExecOut ==
    /\ Executing("Out") /\ Remember /\ Fixed
    /\ Len(out) < MaxOut
    /\ IF ValidReg(op.a)
       THEN Continue /\ out' = Append(out, registers[op.a])
       ELSE Panic /\ UNCHANGED out
    /\ UNCHANGED <<registers, pc, memory, sp, flags, call_stack>>

ExecMov ==
    /\ Executing("Mov") /\ Remember /\ Fixed
    /\ IF ValidReg(op.a)
       THEN Continue /\ registers' = [registers EXCEPT ![op.a] = MovValue(registers, op.b)]
       ELSE Panic /\ UNCHANGED registers
    /\ UNCHANGED <<pc, memory, sp, flags, call_stack, out>>

\* Add, Sub and Mul: registers[dst] = registers[dst].wrapping_f(registers[src])
ExecArith(k, F(_, _)) ==
    /\ Executing(k) /\ Remember /\ Fixed
    /\ IF ValidReg(op.a) /\ ValidReg(op.b)
       THEN Continue
            /\ registers' = [registers EXCEPT ![op.a] = F(registers[op.a], registers[op.b])]
       ELSE Panic /\ UNCHANGED registers
    /\ UNCHANGED <<pc, memory, sp, flags, call_stack, out>>

ExecAdd == ExecArith("Add", WrappingAdd)

ExecSub == ExecArith("Sub", WrappingSub)

ExecMul == ExecArith("Mul", WrappingMul)

DivisorIsZeroDst(regs, dst, src) == regs[dst] = 0

\* the test `self.registers[src as usize] == 0` of the Div arm
DivisorIsZero(regs, dst, src) == regs[src] = 0

\* u8::wrapping_div panics on a zero divisor
ExecDiv ==
    /\ Executing("Div") /\ Remember /\ Fixed
    /\ IF ~ValidReg(op.b)
       THEN Panic /\ UNCHANGED registers
       ELSE IF DivisorIsZero(registers, op.a, op.b)
       THEN Fault(VMError("DivisionByZero", 0)) /\ UNCHANGED registers
       ELSE IF ~ValidReg(op.a) \/ registers[op.b] = 0
       THEN Panic /\ UNCHANGED registers
       ELSE Continue
            /\ registers' = [registers EXCEPT
                                ![op.a] = WrappingDiv(registers[op.a], registers[op.b])]
    /\ UNCHANGED <<pc, memory, sp, flags, call_stack, out>>

ExecCmp ==
    /\ Executing("Cmp") /\ Remember /\ Fixed
    /\ IF ValidReg(op.a) /\ ValidReg(op.b)
       THEN Continue
            /\ flags' = set_greater_flag(
                            set_zero_flag(flags, registers[op.a] = registers[op.b]),
                            registers[op.a] > registers[op.b])
       ELSE Panic /\ UNCHANGED flags
    /\ UNCHANGED <<registers, pc, memory, sp, call_stack, out>>

ExecJmp ==
    /\ Executing("Jmp") /\ Remember /\ Fixed
    /\ IF pc >= MemLen(memory)
       THEN Panic /\ UNCHANGED pc
       ELSE Continue /\ pc' = memory[pc]
    /\ UNCHANGED <<registers, memory, sp, flags, call_stack, out>>

\* Jeq, Jgt and Jne: read the operand, step over it, jump when `taken`
ExecCondJump(k, taken) ==
    /\ Executing(k) /\ Remember /\ Fixed
    /\ IF pc >= MemLen(memory)
       THEN Panic /\ UNCHANGED pc
       ELSE Continue /\ pc' = (IF taken THEN memory[pc] ELSE pc + 1)
    /\ UNCHANGED <<registers, memory, sp, flags, call_stack, out>>

ExecJeq == ExecCondJump("Jeq", ZeroFlag(flags))

ExecJgt == ExecCondJump("Jgt", GreaterFlag(flags))

ExecJne == ExecCondJump("Jne", ~ZeroFlag(flags))

ReturnAddressPastNext(p) == p + 2

ReturnAddressAtOperand(p) == p

\* the pc CALL pushes: the address after its operand byte
ReturnAddress(p) == p + 1

\* a Call arm that also pushes the return address on the data stack
ExecCallOnDataStack ==
    /\ Executing("Call") /\ Remember /\ Fixed
    /\ Len(call_stack) < MaxCallDepth
    /\ IF pc >= MemLen(memory) \/ sp = 0
       THEN Panic /\ UNCHANGED <<pc, call_stack, sp, memory>>
       ELSE Continue
            /\ call_stack' = Append(call_stack, pc + 1)
            /\ sp' = sp - 1
            /\ memory' = [memory EXCEPT ![sp - 1] = (pc + 1) % 256]
            /\ pc' = memory[pc]
    /\ UNCHANGED <<registers, flags, out>>

ExecCall ==
    /\ Executing("Call") /\ Remember /\ Fixed
    /\ Len(call_stack) < MaxCallDepth
    /\ IF pc >= MemLen(memory)
       THEN Panic /\ UNCHANGED <<pc, call_stack>>
       ELSE Continue
            /\ call_stack' = Append(call_stack, ReturnAddress(pc))
            /\ pc' = memory[pc]
    /\ UNCHANGED <<registers, memory, sp, flags, out>>

\* a Ret arm that returns to the oldest entry of call_stack
ExecRetOldest ==
    /\ Executing("Ret") /\ Remember /\ Fixed /\ Continue
    /\ IF call_stack # <<>>
       THEN /\ pc' = call_stack[1]
            /\ call_stack' = Tail(call_stack)
       ELSE UNCHANGED <<pc, call_stack>>
    /\ UNCHANGED <<registers, memory, sp, flags, out>>

\* a Ret arm that faults on an empty call_stack
ExecRetUnderflows ==
    /\ Executing("Ret") /\ Remember /\ Fixed
    /\ IF call_stack # <<>>
       THEN /\ Continue
            /\ pc' = call_stack[Len(call_stack)]
            /\ call_stack' = SubSeq(call_stack, 1, Len(call_stack) - 1)
       ELSE Fault(VMError("StackUnderflow", 0)) /\ UNCHANGED <<pc, call_stack>>
    /\ UNCHANGED <<registers, memory, sp, flags, out>>

ExecRet ==
    /\ Executing("Ret") /\ Remember /\ Fixed /\ Continue
    /\ IF call_stack # <<>>
       THEN /\ pc' = call_stack[Len(call_stack)]
            /\ call_stack' = SubSeq(call_stack, 1, Len(call_stack) - 1)
       ELSE UNCHANGED <<pc, call_stack>>
    /\ UNCHANGED <<registers, memory, sp, flags, out>>

\* a Push arm that stores at sp before it decrements sp
ExecPushStoresFirst ==
    /\ Executing("Push") /\ Remember /\ Fixed
    /\ IF sp = 0
       THEN Fault(VMError("StackOverflow", 0)) /\ UNCHANGED <<sp, memory>>
       ELSE /\ sp' = sp - 1
            /\ IF ValidReg(op.a) /\ sp < MemLen(memory)
               THEN Continue /\ memory' = [memory EXCEPT ![sp] = registers[op.a]]
               ELSE Panic /\ UNCHANGED memory
    /\ UNCHANGED <<registers, pc, flags, call_stack, out>>

ExecPush ==
    /\ Executing("Push") /\ Remember /\ Fixed
    /\ IF sp = 0
       THEN Fault(VMError("StackOverflow", 0)) /\ UNCHANGED <<sp, memory>>
       ELSE /\ sp' = sp - 1
            /\ IF ValidReg(op.a) /\ sp - 1 < MemLen(memory)
               THEN Continue /\ memory' = [memory EXCEPT ![sp - 1] = registers[op.a]]
               ELSE Panic /\ UNCHANGED memory
    /\ UNCHANGED <<registers, pc, flags, call_stack, out>>

PoppedSpUnchanged(s) == s

\* a Pop arm that advances sp before its underflow test
ExecPopAdvancesFirst ==
    /\ Executing("Pop") /\ Remember /\ Fixed
    /\ sp' = sp + 1
    /\ IF sp >= MemLen(memory)
       THEN Fault(VMError("StackUnderflow", 0)) /\ UNCHANGED registers
       ELSE IF ValidReg(op.a)
       THEN Continue /\ registers' = [registers EXCEPT ![op.a] = memory[sp]]
       ELSE Panic /\ UNCHANGED registers
    /\ UNCHANGED <<pc, memory, flags, call_stack, out>>

\* `self.sp += 1` of the Pop arm
PoppedSp(s) == s + 1

ExecPop ==
    /\ Executing("Pop") /\ Remember /\ Fixed
    /\ IF sp >= MemLen(memory)
       THEN Fault(VMError("StackUnderflow", 0)) /\ UNCHANGED <<sp, registers>>
       ELSE IF ValidReg(op.a)
       THEN Continue
            /\ registers' = [registers EXCEPT ![op.a] = memory[sp]]
            /\ sp' = PoppedSp(sp)
       ELSE Panic /\ UNCHANGED <<sp, registers>>
    /\ UNCHANGED <<pc, memory, flags, call_stack, out>>

\* a Load arm that loads the address operand itself
ExecLoadImmediate ==
    /\ Executing("Load") /\ Remember /\ Fixed
    /\ IF pc >= MemLen(memory)
       THEN Panic /\ UNCHANGED <<pc, registers>>
       ELSE /\ pc' = pc + 1
            /\ IF memory[pc] >= MemLen(memory)
               THEN Fault(VMError("InvalidMemoryAccess", memory[pc])) /\ UNCHANGED registers
               ELSE IF ValidReg(op.a)
               THEN Continue /\ registers' = [registers EXCEPT ![op.a] = memory[pc]]
               ELSE Panic /\ UNCHANGED registers
    /\ UNCHANGED <<memory, sp, flags, call_stack, out>>

ExecLoad ==
    /\ Executing("Load") /\ Remember /\ Fixed
    /\ IF pc >= MemLen(memory)
       THEN Panic /\ UNCHANGED <<pc, registers>>
       ELSE /\ pc' = pc + 1
            /\ IF memory[pc] >= MemLen(memory)
               THEN Fault(VMError("InvalidMemoryAccess", memory[pc])) /\ UNCHANGED registers
               ELSE IF ValidReg(op.a)
               THEN Continue /\ registers' = [registers EXCEPT ![op.a] = memory[memory[pc]]]
               ELSE Panic /\ UNCHANGED registers
    /\ UNCHANGED <<memory, sp, flags, call_stack, out>>

ExecStore ==
    /\ Executing("Store") /\ Remember /\ Fixed
    /\ IF pc >= MemLen(memory)
       THEN Panic /\ UNCHANGED <<pc, memory>>
       ELSE /\ pc' = pc + 1
            /\ IF memory[pc] >= MemLen(memory)
               THEN Fault(VMError("InvalidMemoryAccess", memory[pc])) /\ UNCHANGED memory
               ELSE IF ValidReg(op.a)
               THEN Continue /\ memory' = [memory EXCEPT ![memory[pc]] = registers[op.a]]
               ELSE Panic /\ UNCHANGED memory
    /\ UNCHANGED <<registers, sp, flags, call_stack, out>>

IndexedAddrWrapping(base) == (base + registers[1]) % 256

\* base operand + registers[1], as usize (no 8-bit wrap)
IndexedAddr(base) == base + registers[1]

ExecLdIdx ==
    /\ Executing("LdIdx") /\ Remember /\ Fixed
    /\ IF pc >= MemLen(memory)
       THEN Panic /\ UNCHANGED <<pc, registers>>
       ELSE /\ pc' = pc + 1
            /\ IF ~ValidReg(1)
               THEN Panic /\ UNCHANGED registers
               ELSE IF IndexedAddr(memory[pc]) >= MemLen(memory)
               THEN Fault(VMError("InvalidMemoryAccess", IndexedAddr(memory[pc])))
                    /\ UNCHANGED registers
               ELSE IF ValidReg(op.a)
               THEN Continue
                    /\ registers' = [registers EXCEPT
                                        ![op.a] = memory[IndexedAddr(memory[pc])]]
               ELSE Panic /\ UNCHANGED registers
    /\ UNCHANGED <<memory, sp, flags, call_stack, out>>

ExecStIdx ==
    /\ Executing("StIdx") /\ Remember /\ Fixed
    /\ IF pc >= MemLen(memory)
       THEN Panic /\ UNCHANGED <<pc, memory>>
       ELSE /\ pc' = pc + 1
            /\ IF ~ValidReg(1)
               THEN Panic /\ UNCHANGED memory
               ELSE IF IndexedAddr(memory[pc]) >= MemLen(memory)
               THEN Fault(VMError("InvalidMemoryAccess", IndexedAddr(memory[pc])))
                    /\ UNCHANGED memory
               ELSE IF ValidReg(op.a)
               THEN Continue
                    /\ memory' = [memory EXCEPT
                                     ![IndexedAddr(memory[pc])] = registers[op.a]]
               ELSE Panic /\ UNCHANGED memory
    /\ UNCHANGED <<registers, sp, flags, call_stack, out>>

ExecUnknown ==
    /\ Executing("Unknown") /\ Remember /\ Fixed
    /\ Fault(VMError("InvalidOpcode", op.a))
    /\ UNCHANGED <<registers, pc, memory, sp, flags, call_stack, out>>

HaltPcPastEnd(mem) == MemLen(mem) + 1

HaltPcLastByte(mem) == MemLen(mem) - 1

\* where Opcode::Halt leaves pc
HaltPc(mem) == MemLen(mem)

ExecHalt ==
    /\ Executing("Halt") /\ Remember /\ Fixed /\ Continue
    /\ pc' = HaltPc(memory)
    /\ UNCHANGED <<registers, memory, sp, flags, call_stack, out>>

----------------------------------------------------------------------------
(* CPU::run (src/src/vm/cpu.rs:299-306) and CPU::fetch                     *)

\* the caller calls run()
Run ==
    /\ status \in {"new", "loaded"}
    /\ status' = "running"
    /\ UNCHANGED <<config, registers, pc, memory, sp, flags, call_stack, op, err,
                   out, program, ipc, last, asm_vars>>

\* loop test true: let opcode = self.fetch()
Fetch ==
    /\ status = "running"
    /\ pc < MemLen(memory)
    /\ LET r == FetchResult(memory, pc)
       IN  /\ pc' = r.pc
           /\ op' = r.op
           /\ status' = IF r.panic THEN "panic" ELSE "decoded"
    /\ ipc' = pc
    /\ UNCHANGED <<config, registers, memory, sp, flags, call_stack, err, out,
                   program, last, asm_vars>>

\* loop test false: run returns Ok(())
RunReturn ==
    /\ status = "running"
    /\ pc >= MemLen(memory)
    /\ status' = "ok"
    /\ UNCHANGED <<config, registers, pc, memory, sp, flags, call_stack, op, err,
                   out, program, ipc, last, asm_vars>>

----------------------------------------------------------------------------
(* Text.  A Rust string is the sequence of its characters; a source text   *)
(* is the sequence of its lines (what str::lines yields).                  *)

\* the characters of the words the texts of the model are written with
Chars(s) ==
    CASE s = "MOV" -> <<"M", "O", "V">>
      [] s = "ADD" -> <<"A", "D", "D">>
      [] s = "SUB" -> <<"S", "U", "B">>
      [] s = "MUL" -> <<"M", "U", "L">>
      [] s = "DIV" -> <<"D", "I", "V">>
      [] s = "CMP" -> <<"C", "M", "P">>
      [] s = "INC" -> <<"I", "N", "C">>
      [] s = "DEC" -> <<"D", "E", "C">>
      [] s = "OUT" -> <<"O", "U", "T">>
      [] s = "PUSH" -> <<"P", "U", "S", "H">>
      [] s = "POP" -> <<"P", "O", "P">>
      [] s = "LOAD" -> <<"L", "O", "A", "D">>
      [] s = "STORE" -> <<"S", "T", "O", "R", "E">>
      [] s = "LDIDX" -> <<"L", "D", "I", "D", "X">>
      [] s = "STIDX" -> <<"S", "T", "I", "D", "X">>
      [] s = "JMP" -> <<"J", "M", "P">>
      [] s = "JEQ" -> <<"J", "E", "Q">>
      [] s = "JGT" -> <<"J", "G", "T">>
      [] s = "JNE" -> <<"J", "N", "E">>
      [] s = "CALL" -> <<"C", "A", "L", "L">>
      [] s = "RET" -> <<"R", "E", "T">>
      [] s = "HALT" -> <<"H", "A", "L", "T">>
      [] s = "HLT" -> <<"H", "L", "T">>
      [] s = "mov" -> <<"m", "o", "v">>
      [] s = "halt" -> <<"h", "a", "l", "t">>
      [] s = "Halt" -> <<"H", "a", "l", "t">>
      [] s = "r0" -> <<"r", "0">>
      [] s = "r1" -> <<"r", "1">>
      [] s = "r2" -> <<"r", "2">>
      [] s = "r3" -> <<"r", "3">>
      [] s = "r7" -> <<"r", "7">>
      [] s = "r8" -> <<"r", "8">>
      [] s = "r9" -> <<"r", "9">>
      [] s = "r255" -> <<"r", "2", "5", "5">>
      [] s = "r07" -> <<"r", "0", "7">>
      [] s = "r+1" -> <<"r", "+", "1">>
      [] s = "R1" -> <<"R", "1">>
      [] s = "r" -> <<"r">>
      [] s = "0" -> <<"0">>
      [] s = "1" -> <<"1">>
      [] s = "2" -> <<"2">>
      [] s = "3" -> <<"3">>
      [] s = "5" -> <<"5">>
      [] s = "9" -> <<"9">>
      [] s = "10" -> <<"1", "0">>
      [] s = "15" -> <<"1", "5">>
      [] s = "42" -> <<"4", "2">>
      [] s = "255" -> <<"2", "5", "5">>
      [] s = "256" -> <<"2", "5", "6">>
      [] s = "0x50" -> <<"0", "x", "5", "0">>
      [] s = "0xFF" -> <<"0", "x", "F", "F">>
      [] s = "0xff" -> <<"0", "x", "f", "f">>
      [] s = "0x100" -> <<"0", "x", "1", "0", "0">>
      [] s = "+7" -> <<"+", "7">>
      [] s = "-1" -> <<"-", "1">>
      [] s = "007" -> <<"0", "0", "7">>
      [] s = "skip" -> <<"s", "k", "i", "p">>
      [] s = "sub" -> <<"s", "u", "b">>
      [] s = "nowhere" -> <<"n", "o", "w", "h", "e", "r", "e">>
      [] s = "end" -> <<"e", "n", "d">>
      [] s = "far" -> <<"f", "a", "r">>
      [] s = "loop" -> <<"l", "o", "o", "p">>
      [] s = "_a1" -> <<"_", "a", "1">>
      [] s = "1x" -> <<"1", "x">>
      [] s = "a-b" -> <<"a", "-", "b">>
      [] s = "" -> <<>>
      [] s = "Empty operand" -> <<"E", "m", "p", "t", "y", " ", "o", "p", "e", "r", "a", "n", "d">>

Letters ==
    {"a", "b", "c", "d", "e", "f", "g", "h", "i", "j", "k", "l", "m", "n", "o",
     "p", "q", "r", "s", "t", "u", "v", "w", "x", "y", "z",
     "A", "B", "C", "D", "E", "F", "G", "H", "I", "J", "K", "L", "M", "N", "O",
     "P", "Q", "R", "S", "T", "U", "V", "W", "X", "Y", "Z"}

Digits == {"0", "1", "2", "3", "4", "5", "6", "7", "8", "9"}

HexDigits == Digits \cup {"a", "b", "c", "d", "e", "f", "A", "B", "C", "D", "E", "F"}

\* char::to_digit(16)
DigitValue(c) ==
    CASE c = "0" -> 0
      [] c = "1" -> 1
      [] c = "2" -> 2
      [] c = "3" -> 3
      [] c = "4" -> 4
      [] c = "5" -> 5
      [] c = "6" -> 6
      [] c = "7" -> 7
      [] c = "8" -> 8
      [] c = "9" -> 9
      [] c = "a" -> 10
      [] c = "b" -> 11
      [] c = "c" -> 12
      [] c = "d" -> 13
      [] c = "e" -> 14
      [] c = "f" -> 15
      [] c = "A" -> 10
      [] c = "B" -> 11
      [] c = "C" -> 12
      [] c = "D" -> 13
      [] c = "E" -> 14
      [] c = "F" -> 15

\* char::to_uppercase on the characters of the model
UpperChar(c) ==
    CASE c = "a" -> "A"
      [] c = "b" -> "B"
      [] c = "c" -> "C"
      [] c = "d" -> "D"
      [] c = "e" -> "E"
      [] c = "f" -> "F"
      [] c = "g" -> "G"
      [] c = "h" -> "H"
      [] c = "i" -> "I"
      [] c = "j" -> "J"
      [] c = "k" -> "K"
      [] c = "l" -> "L"
      [] c = "m" -> "M"
      [] c = "n" -> "N"
      [] c = "o" -> "O"
      [] c = "p" -> "P"
      [] c = "q" -> "Q"
      [] c = "r" -> "R"
      [] c = "s" -> "S"
      [] c = "t" -> "T"
      [] c = "u" -> "U"
      [] c = "v" -> "V"
      [] c = "w" -> "W"
      [] c = "x" -> "X"
      [] c = "y" -> "Y"
      [] c = "z" -> "Z"
      [] OTHER -> c

\* str::to_uppercase
to_uppercase(s) == [i \in DOMAIN s |-> UpperChar(s[i])]

IsWhitespace(c) == c \in {" ", "\t"}

RECURSIVE TrimStart(_)
TrimStart(s) ==
    IF s # <<>> /\ IsWhitespace(Head(s)) THEN TrimStart(Tail(s)) ELSE s

RECURSIVE TrimEnd(_)
TrimEnd(s) ==
    IF s # <<>> /\ IsWhitespace(s[Len(s)])
    THEN TrimEnd(SubSeq(s, 1, Len(s) - 1))
    ELSE s

\* str::trim
trim(s) == TrimEnd(TrimStart(s))

starts_with(s, prefix) ==
    Len(s) >= Len(prefix) /\ SubSeq(s, 1, Len(prefix)) = prefix

ends_with(s, c) == s # <<>> /\ s[Len(s)] = c

\* s.split(sep).next(): the part of s before the first sep
RECURSIVE FirstPart(_, _)
FirstPart(s, sep) ==
    IF s = <<>> \/ Head(s) = sep THEN <<>>
    ELSE <<Head(s)>> \o FirstPart(Tail(s), sep)

\* s.split(sep): all the parts, empty ones included
RECURSIVE Split(_, _)
Split(s, sep) ==
    LET first == FirstPart(s, sep)
    IN  IF Len(first) = Len(s) THEN <<first>>
        ELSE <<first>> \o Split(SubSeq(s, Len(first) + 2, Len(s)), sep)

\* the leading run of non-whitespace characters
RECURSIVE FirstWord(_)
FirstWord(s) ==
    IF s = <<>> \/ IsWhitespace(Head(s)) THEN <<>>
    ELSE <<Head(s)>> \o FirstWord(Tail(s))

\* str::split_whitespace
RECURSIVE split_whitespace(_)
split_whitespace(s) ==
    LET t == TrimStart(s)
        w == FirstWord(t)
    IN  IF t = <<>> THEN <<>>
        ELSE <<w>> \o split_whitespace(SubSeq(t, Len(w) + 1, Len(t)))

\* s.replace(',', "")
RemoveCommas(s) == SelectSeq(s, LAMBDA c : c # ",")

\* u8::from_str_radix(s, radix): the value, or -1 for Err.  A leading "+" is
\* accepted, an empty digit string and a value above 255 are errors.
RECURSIVE ParseDigits(_, _, _)
ParseDigits(s, radix, acc) ==
    IF s = <<>> THEN acc
    ELSE IF ~(Head(s) \in HexDigits) \/ DigitValue(Head(s)) >= radix THEN -1
    ELSE IF acc * radix + DigitValue(Head(s)) > 255 THEN -1
    ELSE ParseDigits(Tail(s), radix, acc * radix + DigitValue(Head(s)))

u8_from_str_radix(s, radix) ==
    LET digits == IF s # <<>> /\ Head(s) = "+" THEN Tail(s) ELSE s
    IN  IF digits = <<>> THEN -1 ELSE ParseDigits(digits, radix, 0)

\* u8::from_str
u8_from_str(s) == u8_from_str_radix(s, 10)

----------------------------------------------------------------------------
(* AssemblerError and Instruction (src/src/assembler.rs:16-74,             *)
(* src/src/assembler/error.rs, src/src/assembler/instruction.rs:25-41)     *)

AssemblerError(k, s) == [k |-> k, s |-> s, expected |-> 0, got |-> 0]

InvalidNumberOfOperands(instruction, expected, got) ==
    [k |-> "InvalidNumberOfOperands", s |-> instruction, expected |-> expected,
     got |-> got]

NoAsmError == AssemblerError("None", <<>>)

\* Result<_, AssemblerError>
Ok(v) == [ok |-> TRUE, val |-> v, err |-> NoAsmError]

Err(e) == [ok |-> FALSE, val |-> <<>>, err |-> e]

Instruction(opcode, operands) == [opcode |-> opcode, operands |-> operands]

----------------------------------------------------------------------------
(* Assembler (src/src/assembler.rs:77-409)                                 *)

\* HashMap<String, usize>
EmptyMap == [l \in {} |-> 0]

MapInsert(m, key, v) ==
    [l \in DOMAIN m \cup {key} |-> IF l = key THEN v ELSE m[l]]

\* Assembler::new
NewAssembler == [instructions |-> <<>>, labels |-> EmptyMap, current_address |-> 0]

parse_register_below_nine(reg) ==
    IF ~starts_with(reg, <<"r">>) THEN Err(AssemblerError("InvalidRegister", reg))
    ELSE LET num == u8_from_str(Tail(reg))
         IN  IF num = -1 THEN Err(AssemblerError("InvalidRegister", reg))
             ELSE IF num > 8 THEN Err(AssemblerError("InvalidRegister", reg))
             ELSE Ok(num)

parse_register(reg) ==
    IF ~starts_with(reg, <<"r">>) THEN Err(AssemblerError("InvalidRegister", reg))
    ELSE LET num == u8_from_str(Tail(reg))
         IN  IF num = -1 THEN Err(AssemblerError("InvalidRegister", reg))
             ELSE IF num >= 8 THEN Err(AssemblerError("InvalidRegister", reg))
             ELSE Ok(num)

parse_value(value) ==
    LET v == IF starts_with(value, <<"0", "x">>)
             THEN u8_from_str_radix(SubSeq(value, 3, Len(value)), 16)
             ELSE u8_from_str(value)
    IN  IF v = -1 THEN Err(AssemblerError("InvalidValue", value)) ELSE Ok(v)

\* `addr as u8`
AsU8(n) == n % 256

parse_jump_target(labels, target) ==
    IF target \in DOMAIN labels THEN Ok(AsU8(labels[target]))
    ELSE IF starts_with(target, <<"0", "x">>)
    THEN LET v == u8_from_str_radix(SubSeq(target, 3, Len(target)), 16)
         IN  IF v = -1 THEN Err(AssemblerError("InvalidValue", target)) ELSE Ok(v)
    ELSE LET v == u8_from_str(target)
         IN  IF v = -1 THEN Err(AssemblerError("UndefinedLabel", target)) ELSE Ok(v)

parse_memory_operand(operand) ==
    IF operand = <<>> THEN Err(AssemblerError("InvalidValue", Chars("Empty operand")))
    ELSE IF starts_with(operand, <<"r">>) THEN parse_register(operand)
    ELSE parse_value(operand)

calculate_instruction_size(inst) ==
    CASE inst.opcode = Chars("MOV") -> 3
      [] inst.opcode \in {Chars("ADD"), Chars("SUB"), Chars("MUL"), Chars("DIV"),
                          Chars("CMP")} -> 3
      [] inst.opcode \in {Chars("INC"), Chars("DEC"), Chars("OUT"), Chars("PUSH"),
                          Chars("POP")} -> 2
      [] inst.opcode \in {Chars("JMP"), Chars("JEQ"), Chars("JGT")} -> 2
      [] inst.opcode = Chars("CALL") -> 2
      [] inst.opcode \in {Chars("RET"), Chars("HALT")} -> 1
      [] OTHER -> 1

\* the operand count validate_operands expects, -1 for an unknown mnemonic
ExpectedOperands(opcode) ==
    CASE opcode \in {Chars("MOV"), Chars("ADD"), Chars("SUB"), Chars("MUL"),
                     Chars("DIV"), Chars("CMP")} -> 2
      [] opcode \in {Chars("LOAD"), Chars("STORE")} -> 2
      [] opcode \in {Chars("INC"), Chars("DEC"), Chars("OUT"), Chars("PUSH"),
                     Chars("POP"), Chars("LDIDX"), Chars("STIDX"), Chars("JMP"),
                     Chars("JEQ"), Chars("JGT")} -> 1
      [] opcode \in {Chars("HALT"), Chars("RET")} -> 0
      [] OTHER -> -1

validate_operands(inst) ==
    LET expected == ExpectedOperands(inst.opcode)
    IN  IF expected = -1 THEN Err(AssemblerError("InvalidInstruction", inst.opcode))
        ELSE IF Len(inst.operands) # expected
        THEN Err(InvalidNumberOfOperands(inst.opcode, expected, Len(inst.operands)))
        ELSE Ok(<<>>)

\* the opcode byte followed by operand results, or the first error among them
Bytes1(opcode, r1) ==
    IF ~r1.ok THEN r1 ELSE Ok(<<opcode, r1.val>>)

Bytes2(opcode, r1, r2) ==
    IF ~r1.ok THEN r1 ELSE IF ~r2.ok THEN r2 ELSE Ok(<<opcode, r1.val, r2.val>>)

encode_two_reg(opcode, operands) ==
    Bytes2(opcode, parse_register(operands[1]), parse_register(operands[2]))

encode_single_reg(opcode, operands) ==
    Bytes1(opcode, parse_register(operands[1]))

encode_jump(labels, opcode, operands) ==
    Bytes1(opcode, parse_jump_target(labels, operands[1]))

instruction_to_bytes(labels, inst) ==
    LET o == inst.opcode
        ops == inst.operands
        valid == validate_operands(inst)
    IN  IF ~valid.ok THEN valid
        ELSE CASE o = Chars("MOV") ->
                    Bytes2(4, parse_register(ops[1]), parse_value(ops[2]))
               [] o = Chars("ADD") -> encode_two_reg(48, ops)
               [] o = Chars("SUB") -> encode_two_reg(49, ops)
               [] o = Chars("MUL") -> encode_two_reg(50, ops)
               [] o = Chars("DIV") -> encode_two_reg(51, ops)
               [] o = Chars("INC") -> encode_single_reg(1, ops)
               [] o = Chars("DEC") -> encode_single_reg(2, ops)
               [] o = Chars("OUT") -> encode_single_reg(3, ops)
               [] o = Chars("PUSH") -> encode_single_reg(16, ops)
               [] o = Chars("POP") -> encode_single_reg(17, ops)
               [] o = Chars("LOAD") ->
                    Bytes2(32, parse_register(ops[1]), parse_memory_operand(ops[2]))
               [] o = Chars("STORE") ->
                    Bytes2(33, parse_register(ops[1]), parse_memory_operand(ops[2]))
               [] o = Chars("LDIDX") -> encode_single_reg(34, ops)
               [] o = Chars("STIDX") -> encode_single_reg(35, ops)
               [] o = Chars("JMP") -> encode_jump(labels, 64, ops)
               [] o = Chars("JEQ") -> encode_jump(labels, 65, ops)
               [] o = Chars("JGT") -> encode_jump(labels, 66, ops)
               [] o = Chars("CMP") -> encode_two_reg(67, ops)
               [] o = Chars("CALL") -> encode_jump(labels, 18, ops)
               [] o = Chars("RET") -> Ok(<<19>>)
               [] o = Chars("HALT") -> Ok(<<255>>)
               [] OTHER -> Err(AssemblerError("InvalidInstruction", o))

IsNumeric(c) == c \in Digits

IsAlphanumeric(c) == c \in Letters \cup Digits

validate_label(label) ==
    IF label = <<>> \/ IsNumeric(Head(label))
    THEN Err(AssemblerError("InvalidLabel", label))
    ELSE IF ~(\A i \in DOMAIN label : IsAlphanumeric(label[i]) \/ label[i] = "_")
    THEN Err(AssemblerError("InvalidLabel", label))
    ELSE Ok(<<>>)

\* the body of first_pass's loop over the (remaining) lines
\* the body of the loop of first_pass for one line
FirstPassLine(asm, raw) ==
    LET line == trim(raw)
    IN  IF line = <<>> \/ starts_with(line, <<";">>)
        THEN [asm |-> asm, res |-> Ok(<<>>)]
        ELSE IF ends_with(line, ":")
        THEN LET label == trim(SubSeq(line, 1, Len(line) - 1))
                 valid == validate_label(label)
             IN  IF ~valid.ok THEN [asm |-> asm, res |-> valid]
                 ELSE [asm |-> [asm EXCEPT !.labels =
                                    MapInsert(@, label, asm.current_address)],
                       res |-> Ok(<<>>)]
        ELSE LET parts == split_whitespace(trim(FirstPart(line, ";")))
             IN  IF parts = <<>> THEN [asm |-> asm, res |-> Ok(<<>>)]
                 ELSE LET inst == Instruction(
                                    to_uppercase(parts[1]),
                                    [i \in 1..(Len(parts) - 1) |->
                                        RemoveCommas(parts[i + 1])])
                      IN  [asm |-> [asm EXCEPT
                                      !.current_address =
                                          @ + calculate_instruction_size(inst),
                                      !.instructions = Append(@, inst)],
                           res |-> Ok(<<>>)]

\* the loop of first_pass over `lines`, in order, returning at the first
\* error: the lines of the first half, then those of the second half
RECURSIVE FirstPassLines(_, _)
FirstPassLines(asm, lines) ==
    IF lines = <<>> THEN [asm |-> asm, res |-> Ok(<<>>)]
    ELSE IF Len(lines) = 1 THEN FirstPassLine(asm, lines[1])
    ELSE LET half == Len(lines) \div 2
             first == FirstPassLines(asm, SubSeq(lines, 1, half))
         IN  IF ~first.res.ok THEN first
             ELSE FirstPassLines(first.asm, SubSeq(lines, half + 1, Len(lines)))

first_pass(asm, code) ==
    FirstPassLines([asm EXCEPT !.current_address = 0], code)

\* the loop of second_pass over `insts`, in order, extending `bytecode` and
\* returning at the first error: the first half, then the second half
RECURSIVE SecondPassInstructions(_, _, _)
SecondPassInstructions(labels, insts, bytecode) ==
    IF insts = <<>> THEN Ok(bytecode)
    ELSE IF Len(insts) = 1
    THEN LET inst_bytes == instruction_to_bytes(labels, insts[1])
         IN  IF ~inst_bytes.ok THEN inst_bytes
             ELSE Ok(bytecode \o inst_bytes.val)
    ELSE LET half == Len(insts) \div 2
             first == SecondPassInstructions(labels, SubSeq(insts, 1, half), bytecode)
         IN  IF ~first.ok THEN first
             ELSE SecondPassInstructions(labels, SubSeq(insts, half + 1, Len(insts)),
                                         first.val)

second_pass(asm) == SecondPassInstructions(asm.labels, asm.instructions, <<>>)

\* Assembler::assemble: the assembler afterwards and the result returned
assemble(asm, code) ==
    LET first == first_pass(asm, code)
    IN  IF ~first.res.ok THEN first
        ELSE [asm |-> first.asm, res |-> second_pass(first.asm)]

----------------------------------------------------------------------------
(* Instruction::encode and FromStr (src/src/assembler/instruction.rs)      *)

instr_parse_register(reg) ==
    IF ~starts_with(reg, <<"r">>) THEN Err(AssemblerError("InvalidRegister", reg))
    ELSE LET num == u8_from_str(Tail(reg))
         IN  IF num = -1 THEN Err(AssemblerError("InvalidRegister", reg))
             ELSE IF num >= 8 THEN Err(AssemblerError("InvalidRegister", reg))
             ELSE Ok(num)

instr_parse_value(val) ==
    LET v == IF starts_with(val, <<"0", "x">>)
             THEN u8_from_str_radix(SubSeq(val, 3, Len(val)), 16)
             ELSE u8_from_str(val)
    IN  IF v = -1 THEN Err(AssemblerError("InvalidValue", val)) ELSE Ok(v)

check_operand_count(inst, expected) ==
    IF Len(inst.operands) # expected
    THEN Err(InvalidNumberOfOperands(inst.opcode, expected, Len(inst.operands)))
    ELSE Ok(<<>>)

\* an arm of encode: count check, then the opcode byte and its operands
EncodeArm0(inst, opcode) ==
    LET count == check_operand_count(inst, 0)
    IN  IF ~count.ok THEN count ELSE Ok(<<opcode>>)

EncodeArm1(inst, opcode, P1(_)) ==
    LET count == check_operand_count(inst, 1)
    IN  IF ~count.ok THEN count ELSE Bytes1(opcode, P1(inst.operands[1]))

EncodeArm2(inst, opcode, P1(_), P2(_)) ==
    LET count == check_operand_count(inst, 2)
    IN  IF ~count.ok THEN count
        ELSE Bytes2(opcode, P1(inst.operands[1]), P2(inst.operands[2]))

\* the source operand of MOV: a register index for an r-token, else a value
MovSource(tok) ==
    IF starts_with(tok, <<"r">>) THEN instr_parse_register(tok)
    ELSE instr_parse_value(tok)

encode(inst) ==
    LET o == inst.opcode
    IN  CASE o = Chars("MOV") -> EncodeArm2(inst, 4, instr_parse_register, MovSource)
          [] o = Chars("STORE") ->
                EncodeArm2(inst, 33, instr_parse_register, instr_parse_value)
          [] o = Chars("LOAD") ->
                EncodeArm2(inst, 32, instr_parse_register, instr_parse_value)
          [] o = Chars("STIDX") ->
                EncodeArm2(inst, 35, instr_parse_register, instr_parse_register)
          [] o = Chars("LDIDX") ->
                EncodeArm2(inst, 34, instr_parse_register, instr_parse_register)
          [] o = Chars("PUSH") -> EncodeArm1(inst, 16, instr_parse_register)
          [] o = Chars("POP") -> EncodeArm1(inst, 17, instr_parse_register)
          [] o = Chars("CALL") -> EncodeArm1(inst, 18, instr_parse_value)
          [] o = Chars("RET") -> EncodeArm0(inst, 19)
          [] o = Chars("JMP") -> EncodeArm1(inst, 64, instr_parse_value)
          [] o = Chars("JEQ") -> EncodeArm1(inst, 65, instr_parse_value)
          [] o = Chars("JGT") -> EncodeArm1(inst, 66, instr_parse_value)
          [] o = Chars("JNE") -> EncodeArm1(inst, 68, instr_parse_value)
          [] o = Chars("CMP") ->
                EncodeArm2(inst, 67, instr_parse_register, instr_parse_register)
          [] o \in {Chars("HALT"), Chars("HLT")} -> EncodeArm0(inst, 255)
          [] OTHER -> Err(AssemblerError("InvalidInstruction", o))

\* the non-empty, trimmed parts of splitting every word at its commas
RECURSIVE SplitWordsAtCommas(_)
SplitWordsAtCommas(words) ==
    IF words = <<>> THEN <<>>
    ELSE LET pieces == Split(Head(words), ",")
             trimmed == [i \in DOMAIN pieces |-> trim(pieces[i])]
         IN  SelectSeq(trimmed, LAMBDA part : part # <<>>)
             \o SplitWordsAtCommas(Tail(words))

\* <Instruction as FromStr>::from_str
from_str(str) ==
    LET t == trim(str)
    IN  IF t = <<>> \/ starts_with(t, <<";">>)
        THEN Err(AssemblerError("SyntaxError", <<>>))
        ELSE LET parts == SplitWordsAtCommas(split_whitespace(FirstPart(t, ";")))
             IN  IF parts = <<>> THEN Err(AssemblerError("SyntaxError", <<>>))
                 ELSE Ok(Instruction(to_uppercase(parts[1]), Tail(parts)))

----------------------------------------------------------------------------
(* The source texts the model assembles (src/tests/vm_tests.rs and the     *)
(* fault scenarios), written line by line                                  *)

Ins0(m) == Chars(m)

Ins1(m, a) == Chars(m) \o <<" ">> \o Chars(a)

Ins2(m, a, b) == Chars(m) \o <<" ">> \o Chars(a) \o <<",", " ">> \o Chars(b)

Label(name) == Chars(name) \o <<":">>

Indent(line) == <<" ", " ", " ", " ">> \o line

TextMovImmediate == <<Ins2("MOV", "r0", "5"), Ins2("MOV", "r1", "10"), Ins0("HALT")>>

TextMovRegister == <<Ins2("MOV", "r0", "42"), Ins2("MOV", "r1", "r0"), Ins0("HALT")>>

TextMovFromR3 == <<Ins2("MOV", "r3", "9"), Ins2("MOV", "r0", "r3"), Ins0("HALT")>>

TextDiv ==
    <<Ins2("MOV", "r0", "15"), Ins2("MOV", "r1", "3"), Ins2("DIV", "r0", "r1"),
      Ins0("HALT")>>

TextDivZero ==
    <<Ins2("MOV", "r0", "10"), Ins2("MOV", "r1", "0"), Ins2("DIV", "r0", "r1"),
      Ins0("HALT")>>

TextMemory ==
    <<Ins2("MOV", "r0", "42"), Ins2("STORE", "r0", "0x50"), Ins2("MOV", "r0", "0"),
      Ins2("LOAD", "r1", "0x50"), Ins0("HALT")>>

TextJmp ==
    <<Indent(Ins2("MOV", "r0", "1")), Indent(Ins1("JMP", "skip")),
      Indent(Ins2("MOV", "r0", "2")), Indent(Label("skip")),
      Indent(Ins2("MOV", "r1", "3")), Indent(Ins0("HALT"))>>

TextStack ==
    <<Ins2("MOV", "r0", "42"), Ins1("PUSH", "r0"), Ins2("MOV", "r0", "0"),
      Ins1("POP", "r1"), Ins0("HALT")>>

TextCall ==
    <<Ins2("MOV", "r0", "1"), Ins1("CALL", "sub"), Ins2("MOV", "r2", "3"),
      Ins0("HALT"), Label("sub"), Ins2("MOV", "r1", "2"), Ins0("RET")>>

TextBadRegister == <<Ins2("MOV", "r9", "1")>>

TextUndefinedLabel == <<Ins1("JMP", "nowhere")>>

TextHalt == <<Ins0("HALT")>>

TextEmpty == <<>>

TextComments == <<<<";", " ", "x">>, <<>>, Ins0("halt") \o <<" ", ";", " ", "c">>>>

\* a label that follows a STORE, referenced before its definition
TextStoreLabel ==
    <<Ins2("STORE", "r0", "0x50"), Ins1("JMP", "end"), Ins2("MOV", "r0", "1"),
      Label("end"), Ins0("HALT")>>

\* the label loop defined on two lines
TextDuplicateLabel ==
    <<Label("loop"), Ins2("MOV", "r0", "1"), Label("loop"), Ins1("JMP", "loop")>>

\* MOV r0, 1 on 86 lines (258 bytes), then the label far and a jump to it
TextFarLabel ==
    [i \in 1..86 |-> Ins2("MOV", "r0", "1")] \o <<Label("far"), Ins1("JMP", "far")>>

\* one jump or call whose target is a literal, in and out of the u8 range,
\* or a label the text does not define
JumpTargetTexts ==
    { <<Ins1(m, t)>> : m \in {"JMP", "CALL"}, t \in {"0x50", "5", "0x100", "256", "skip"} }

Texts ==
    {TextMovImmediate, TextMovRegister, TextMovFromR3, TextDiv, TextDivZero,
     TextMemory, TextJmp, TextStack, TextCall, TextBadRegister, TextUndefinedLabel,
     TextHalt, TextEmpty, TextComments, TextStoreLabel, TextDuplicateLabel,
     TextFarLabel}
    \cup JumpTargetTexts

----------------------------------------------------------------------------
(* The programs the model loads: raw bytecode, as load_program accepts it  *)

RECURSIVE Flatten(_)
Flatten(ss) == IF ss = <<>> THEN <<>> ELSE Head(ss) \o Flatten(Tail(ss))

\* instruction encodings the generated programs are made of
InstrPool ==
    { <<4, 0, 42>>,     \* MOV r0, 42
      <<4, 1, 0>>,      \* MOV r1, 0  (also what MOV r1, r0 encodes to)
      <<16, 0>>,        \* PUSH r0
      <<17, 1>>,        \* POP r1
      <<17, 0>>,        \* POP r0
      <<51, 0, 1>>,     \* DIV r0, r1
      <<18, 3>>,        \* CALL 3
      <<18, 5>>,        \* CALL 5
      <<19>>,           \* RET
      <<64, 200>>,      \* JMP 200
      <<64, 0>>,        \* JMP 0
      <<255>> }         \* HALT

PoolPrograms ==
    { Flatten(s) : s \in UNION { [1..n -> InstrPool] : n \in 0..MaxInstr } }

\* operand values of the arithmetic programs
ArithValues == {0, 1, 2, 3, 15, 16, 127, 128, 200, 255}

\* MOV r0, x; MOV r1, y; <op> rD, rS; HALT
ArithPrograms ==
    { <<4, 0, x, 4, 1, y, o, d, s2, 255>> :
        x \in ArithValues, y \in ArithValues, o \in {48, 49, 50, 51, 67},
        d \in {0}, s2 \in {0, 1} }

\* encodings of the memory, INC/DEC/OUT and fault cases
MemInstrPool ==
    { <<4, 0, 42>>,     \* MOV r0, 42
      <<4, 1, 3>>,      \* MOV r1, 3
      <<33, 0, 9>>,     \* STORE r0, 9
      <<32, 2, 9>>,     \* LOAD r2, 9
      <<35, 0, 8>>,     \* STIDX r0, 8
      <<34, 2, 8>>,     \* LDIDX r2, 8
      <<1, 0>>,         \* INC r0
      <<2, 0>>,         \* DEC r0
      <<3, 0>>,         \* OUT r0
      <<1, 9>>,         \* INC r9
      <<33, 0, 200>>,   \* STORE r0, 200
      <<7>> }           \* not an opcode

MemPrograms ==
    { Flatten(s) : s \in UNION { [1..n -> MemInstrPool] : n \in 0..MaxInstr } }

\* MOV r0, x; CMP rA, rB; <jump> 10; INC r2; HALT
JumpPrograms ==
    { <<4, 0, x, 67, a, b, j, 10, 1, 2, 255>> :
        x \in {0, 1}, a \in {0, 1}, b \in {0, 1}, j \in {64, 65, 66, 68} }

\* MOV r0, v; HALT for every operand byte v
MovPrograms == { <<4, 0, v, 255>> : v \in Byte }

\* further programs, one scenario each
ScenarioPrograms ==
    { \* JMP 8, then at address 8 the loop PUSH r0; JMP 8: the code sits above
      \* the bytes the pushes write
      <<64, 8, 0, 0, 0, 0, 0, 0, 16, 0, 64, 8>>,
      \* MOV r1, 200; STIDX r0, 100 and MOV r1, 200; LDIDX r0, 100
      <<4, 1, 200, 35, 0, 100>>,
      <<4, 1, 200, 34, 0, 100>>,
      \* MOV r0, 42; STIDX r0, 9; LDIDX r2, 9
      <<4, 0, 42, 35, 0, 9, 34, 2, 9>>,
      \* MOV r0, 1; CMP r0, r0; CMP r0, r1; CMP r1, r0
      <<4, 0, 1, 67, 0, 0, 67, 0, 1, 67, 1, 0>>,
      \* MOV r0, 255; INC r0; DEC r0; DEC r0; HALT
      <<4, 0, 255, 1, 0, 2, 0, 2, 0, 255>>,
      \* register 9 as an operand: OUT r9; MOV r9, 1; ADD r0, r9; PUSH r9;
      \* STORE r9, 9
      <<3, 9>>, <<4, 9, 1>>, <<48, 0, 9>>, <<16, 9>>, <<33, 9, 9>>,
      \* JMP 11, then at address 11 an opcode whose operand would be at 12:
      \* INC, MOV, JMP, CALL
      <<64, 11, 0, 0, 0, 0, 0, 0, 0, 0, 0, 1>>,
      <<64, 11, 0, 0, 0, 0, 0, 0, 0, 0, 0, 4>>,
      <<64, 11, 0, 0, 0, 0, 0, 0, 0, 0, 0, 64>>,
      <<64, 11, 0, 0, 0, 0, 0, 0, 0, 0, 0, 18>>,
      \* JMP 10, then at address 10 CALL 3, whose operand is the byte at 11
      <<64, 10, 0, 19, 0, 0, 0, 0, 0, 0, 18, 3>>,
      \* JNE 3, then at address 3 a byte that is not an opcode
      <<68, 3, 0, 7>>,
      \* CALL 4; HALT; at address 4 the subroutine PUSH r0; RET
      <<18, 4, 255, 0, 16, 0, 19>>,
      \* MOV r0, 7; MOV r1, 9; PUSH r0; PUSH r1; POP r2; POP r3; HALT
      <<4, 0, 7, 4, 1, 9, 16, 0, 16, 1, 17, 2, 17, 3, 255>>,
      \* CALL 3; HALT; at address 3: CALL 6; RET; at address 6: RET
      <<18, 3, 255, 18, 6, 19, 19>> }

\* what a new Assembler makes of the texts it accepts
AssembledPrograms ==
    { assemble(NewAssembler, t).res.val :
        t \in { u \in Texts : assemble(NewAssembler, u).res.ok } }

\* the encodings of the lines of a text, in order: from_str and encode on
\* every line (a text without labels, comments or errors)
EncodedProgram(text) ==
    Flatten([i \in DOMAIN text |-> encode(from_str(text[i]).val).val])

EncodedPrograms ==
    { EncodedProgram(t) :
        t \in {TextMovImmediate, TextMovRegister, TextMovFromR3, TextDiv,
               TextDivZero, TextMemory, TextStack} }

\* instructions for the encoders: every mnemonic with every operand list
Mnemonics ==
    {"INC", "DEC", "OUT", "MOV", "PUSH", "POP", "CALL", "RET", "LOAD", "STORE",
     "LDIDX", "STIDX", "ADD", "SUB", "MUL", "DIV", "JMP", "JEQ", "JGT", "CMP",
     "JNE", "HALT", "HLT"}

OperandLists ==
    { <<>>, <<Chars("r2")>>, <<Chars("9")>>, <<Chars("0x50")>>,
      <<Chars("r2"), Chars("r1")>>, <<Chars("r2"), Chars("42")>>,
      <<Chars("r2"), Chars("0x50")>> }

Instructions ==
    { Instruction(Chars(m), ops) : m \in Mnemonics, ops \in OperandLists }

\* an instruction and the bytes an encoder emits for it
Encodings ==
    { [inst |-> i, bytes |-> instruction_to_bytes(EmptyMap, i).val] :
        i \in { j \in Instructions : instruction_to_bytes(EmptyMap, j).ok } }
    \cup
    { [inst |-> i, bytes |-> encode(i).val] :
        i \in { j \in Instructions : encode(j).ok } }

SingleInstructionPrograms == { e.bytes : e \in Encodings }

Programs ==
    PoolPrograms \cup ArithPrograms \cup MemPrograms \cup JumpPrograms
    \cup MovPrograms \cup AssembledPrograms \cup EncodedPrograms
    \cup SingleInstructionPrograms \cup ScenarioPrograms

----------------------------------------------------------------------------

Init ==
    /\ config \in Configs
    /\ registers = NewRegisters(config)
    /\ pc = config.pc_start
    /\ memory = NewMemory(config)
    /\ sp = InitialSp(config)
    /\ flags = 0
    /\ call_stack = <<>>
    /\ status = "new"
    /\ op = NoOpcode
    /\ err = NoError
    /\ out = <<>>
    /\ program = <<>>
    /\ ipc = 0
    /\ last = NoLast
    /\ assembler = NewAssembler
    /\ asm_calls = <<>>
    /\ encoded = <<>>

\* the caller calls load_program(prog) on the new CPU
LoadProgram ==
    /\ status = "new"
    /\ \E prog \in Programs :
        /\ program' = prog
        /\ IF Len(prog) > MemLen(memory)
           THEN status' = "panic" /\ UNCHANGED memory
           ELSE status' = "loaded" /\ memory' = CopyFromSlice(memory, prog)
    /\ UNCHANGED <<config, registers, pc, sp, flags, call_stack, op, err, out,
                   ipc, last, asm_vars>>

Next ==
    \/ LoadProgram
    \/ Run
    \/ Fetch
    \/ RunReturn
    \/ ExecInc
    \/ ExecDec
    \/ ExecOut
    \/ ExecMov
    \/ ExecAdd
    \/ ExecSub
    \/ ExecMul
    \/ ExecDiv
    \/ ExecCmp
    \/ ExecJmp
    \/ ExecJeq
    \/ ExecJgt
    \/ ExecJne
    \/ ExecCall
    \/ ExecRet
    \/ ExecPush
    \/ ExecPop
    \/ ExecLoad
    \/ ExecStore
    \/ ExecLdIdx
    \/ ExecStIdx
    \/ ExecUnknown
    \/ ExecHalt

Spec == Init /\ [][Next]_vars

\* run is one loop of one thread: a step that can be taken is taken
FairSpec == Spec /\ WF_vars(Next)

----------------------------------------------------------------------------
(* The assembler on its own: assemble calls on one Assembler instance      *)

MaxAssembles == 2

InitAsm ==
    /\ config = DefaultConfig
    /\ registers = NewRegisters(config)
    /\ pc = config.pc_start
    /\ memory = NewMemory(config)
    /\ sp = InitialSp(config)
    /\ flags = 0
    /\ call_stack = <<>>
    /\ status = "new"
    /\ op = NoOpcode
    /\ err = NoError
    /\ out = <<>>
    /\ program = <<>>
    /\ ipc = 0
    /\ last = NoLast
    /\ assembler = NewAssembler
    /\ asm_calls = <<>>
    /\ encoded = <<>>

\* the caller calls assembler.assemble(code)
Assemble ==
    /\ Len(asm_calls) < MaxAssembles
    /\ \E code \in Texts :
        LET r == assemble(assembler, code)
        IN  /\ assembler' = r.asm
            /\ asm_calls' = Append(asm_calls, [code |-> code, res |-> r.res])
    /\ UNCHANGED <<cpu_vars, encoded>>

NextAsm == Assemble

SpecAsm == InitAsm /\ [][NextAsm]_vars

----------------------------------------------------------------------------
(* The CPU used again after run has returned Ok                            *)

\* the caller calls run() again
RunAgain ==
    /\ status = "ok"
    /\ status' = "running"
    /\ UNCHANGED <<config, registers, pc, memory, sp, flags, call_stack, op, err,
                   out, program, ipc, last, asm_vars>>

\* a load_program that starts the new program over
LoadAgainResetsPc ==
    /\ status = "ok"
    /\ \E prog \in { <<1, 3, 1, 3, 255>> } :
        /\ program' = prog
        /\ status' = "loaded"
        /\ memory' = CopyFromSlice(memory, prog)
    /\ pc' = config.pc_start
    /\ UNCHANGED <<config, registers, sp, flags, call_stack, op, err, out,
                   ipc, last, asm_vars>>

\* the caller calls load_program(prog) on the CPU whose run has returned Ok:
\* INC r3; INC r3; HALT
LoadAgain ==
    /\ status = "ok"
    /\ \E prog \in { <<1, 3, 1, 3, 255>> } :
        /\ program' = prog
        /\ status' = "loaded"
        /\ memory' = CopyFromSlice(memory, prog)
    /\ UNCHANGED <<config, registers, pc, sp, flags, call_stack, op, err, out,
                   ipc, last, asm_vars>>

SpecAgain == Init /\ [][Next \/ RunAgain \/ LoadAgain]_vars

----------------------------------------------------------------------------
(* The encoders on one source line: Assembler::assemble on a new Assembler *)
(* and Instruction::from_str followed by Instruction::encode               *)

\* instructions whose operands are register-like tokens, in every position
RegisterInstructions ==
    LET tokens == {Chars(t) : t \in {"r7", "r8", "r9", "r255", "R1", "3", "r07",
                                     "r+1", "r"}}
        lists == { <<t>> : t \in tokens }
                 \cup { <<t, Chars("1")>> : t \in tokens }
                 \cup { <<Chars("r2"), t>> : t \in tokens }
    IN  { Instruction(Chars(m), ops) : m \in Mnemonics, ops \in lists }

\* the source line of an instruction: mnemonic, blank, operands with ", "
LineOf(inst) ==
    CASE Len(inst.operands) = 0 -> inst.opcode
      [] Len(inst.operands) = 1 -> inst.opcode \o <<" ">> \o inst.operands[1]
      [] OTHER -> inst.opcode \o <<" ">> \o inst.operands[1] \o <<",", " ">>
                  \o inst.operands[2]

\* the caller assembles one line, and parses and encodes the same line
Encode ==
    /\ encoded = <<>>
    /\ \E inst \in Instructions \cup RegisterInstructions :
        LET line == LineOf(inst)
            parsed == from_str(line)
        IN  encoded' = <<[inst |-> inst,
                          line |-> line,
                          by_assemble |-> assemble(NewAssembler, <<line>>).res,
                          by_encode |-> IF parsed.ok THEN encode(parsed.val)
                                        ELSE parsed]>>
    /\ UNCHANGED <<cpu_vars, assembler, asm_calls>>

SpecEnc == InitAsm /\ [][Encode]_vars


----------------------------------------------------------------------------
(* Properties of the CPU (specification Spec)                              *)

JumpKinds == {"Jmp", "Jeq", "Jgt", "Jne", "Call"}

\* C1: at every point of run the data-stack pointer sp stays within
\* [memory_size - stack_size, memory_size]
C1_SpInStackRegion ==
    /\ sp >= config.memory_size - config.stack_size
    /\ sp <= config.memory_size

\* C2 as stated: at every point of run, pc <= memory_size
C2_PcWithinMemory == pc <= config.memory_size

\* C2, amended: pc <= memory_size at every point, except that a JMP, a taken
\* conditional jump or a CALL leaves pc at its operand byte, which is at most
\* 255 and so can only exceed a memory_size below 255
C2_PcWithinMemoryOrOperand ==
    \/ pc <= config.memory_size
    \/ /\ last.op.k \in JumpKinds
       /\ pc = last.arg
       /\ pc <= 255

C2_Witness ==
    /\ status = "running"
    /\ last.op.k = "Jmp"
    /\ pc = last.arg
    /\ pc > config.memory_size

\* the bytes of MOV r0, 42; MOV r1, r0; HALT
MovRegisterProgram == EncodedProgram(TextMovRegister)

\* C3: MOV r1, r0 leaves r1 with the contents of r0: the program
\* MOV r0, 42; MOV r1, r0; HALT ends with r0 = 42 and r1 = 42
C3_MovCopiesRegister ==
    (program = MovRegisterProgram /\ status = "ok")
        => (registers[0] = 42 /\ registers[1] = 42)

\* the bytes of MOV r3, 9; MOV r0, r3; HALT
MovFromR3Program == EncodedProgram(TextMovFromR3)

C5_PushThenPop ==
    [][(Executing("Pop") /\ last.op.k = "Push" /\ status' = "running")
          => /\ sp' = last.sp
             /\ registers'[op.a] = last.registers[last.op.a]]_vars

\* MOV r0, 42; PUSH r0; POP r1 has run its POP
C5_Witness ==
    /\ program = <<4, 0, 42, 16, 0, 17, 1>>
    /\ last.op.k = "Pop"
    /\ last.at = 5
    /\ status = "running"
    /\ registers[1] = 42
    /\ sp = InitialSp(config)

\* C6: a CALL at address a pushes a + 2 and jumps to its operand; no other
\* instruction touches call_stack; a RET on a non-empty call_stack pops its
\* top into pc.  So the RET after a CALL returns to a + 2 at the old depth.
C6_CallThenRet ==
    /\ [][(Executing("Call") /\ status' = "running")
            => /\ call_stack' = Append(call_stack, ipc + 2)
               /\ pc' = memory[ipc + 1]]_vars
    /\ [][(Executing("Ret") /\ call_stack # <<>>)
            => /\ pc' = call_stack[Len(call_stack)]
               /\ call_stack' = SubSeq(call_stack, 1, Len(call_stack) - 1)]_vars
    /\ [][(status # "decoded" \/ op.k \notin {"Call", "Ret"})
            => call_stack' = call_stack]_vars
    /\ []((program = <<18, 3, 255, 19>> /\ status = "running" /\ ipc = 3
           /\ last.op.k = "Ret")
            => (pc = 2 /\ call_stack = <<>>))

\* CALL 3; HALT; RET has returned to the HALT at address 2
C6_Witness ==
    /\ program = <<18, 3, 255, 19>>
    /\ status = "running"
    /\ ipc = 3
    /\ last.op.k = "Ret"
    /\ pc = 2
    /\ call_stack = <<>>

ArithKinds == {"Add", "Sub", "Mul", "Div"}

\* C7: ADD, SUB and MUL leave registers[D] = (x op y) mod 256 and DIV with
\* y # 0 leaves floor(x / y), also when D = S
C7_ArithmeticWraps ==
    [][(status = "decoded" /\ op.k \in ArithKinds /\ ValidReg(op.a) /\ ValidReg(op.b)
        /\ (op.k = "Div" => registers[op.b] # 0))
          => LET x == registers[op.a]
                 y == registers[op.b]
             IN  registers'[op.a] =
                    CASE op.k = "Add" -> (x + y) % 256
                      [] op.k = "Sub" -> (x - y) % 256
                      [] op.k = "Mul" -> (x * y) % 256
                      [] op.k = "Div" -> x \div y]_vars

\* an ADD whose sum passed 255 has wrapped
C7_Witness ==
    /\ last.op.k = "Add"
    /\ status = "running"
    /\ last.registers[last.op.a] + last.registers[last.op.b] > 255
    /\ registers[last.op.a]
         = last.registers[last.op.a] + last.registers[last.op.b] - 256

\* C8: DIV with a zero divisor makes run return DivisionByZero, leaves every
\* register as it was and pc at the address of the DIV plus 3, and nothing
\* is executed after the fault
C8_DivisionByZero ==
    /\ [][(Executing("Div") /\ ValidReg(op.b) /\ registers[op.b] = 0)
            => /\ status' = "err"
               /\ err' = VMError("DivisionByZero", 0)
               /\ registers' = registers
               /\ pc' = ipc + 3]_vars
    /\ [][status # "err"]_vars

C8_Witness ==
    /\ status = "err"
    /\ err = VMError("DivisionByZero", 0)
    /\ last.op.k = "Div"
    /\ registers = last.registers
    /\ registers[0] = 10
    /\ pc = last.at + 3

\* C12: when run returns an error, the faulting instruction has changed no
\* register, memory cell, flag, sp or call_stack (pc alone may have moved),
\* and nothing is executed after the fault
C12_FaultChangesNothing ==
    /\ [][status' = "err"
            => /\ status = "decoded"
               /\ err'.k \in {"StackOverflow", "StackUnderflow", "DivisionByZero",
                              "InvalidMemoryAccess", "InvalidRegister", "InvalidOpcode"}
               /\ registers' = registers
               /\ memory' = memory
               /\ flags' = flags
               /\ sp' = sp
               /\ call_stack' = call_stack
               /\ out' = out]_vars
    /\ [][status = "err" => UNCHANGED cpu_vars]_vars

\* MOV r0, 42; STORE r0, 200 on the small memory: the STORE has faulted and
\* the MOV's effect is still there
C12_Witness ==
    /\ program = <<4, 0, 42, 33, 0, 200>>
    /\ status = "err"
    /\ err = VMError("InvalidMemoryAccess", 200)
    /\ registers[0] = 42
    /\ pc = last.at + 3
    /\ \A a \in DOMAIN memory : memory[a] = (IF a < 6 THEN program[a + 1] ELSE 0)

\* C13: a PUSH that would move sp below memory_size - stack_size makes run
\* return StackOverflow and writes nothing to memory
C13_PushOverflow ==
    [][(Executing("Push") /\ sp - 1 < config.memory_size - config.stack_size)
          => /\ status' = "err"
             /\ err' = VMError("StackOverflow", 0)
             /\ memory' = memory]_vars

\* C14: a POP executed before any PUSH (the first instruction run) makes run
\* return StackUnderflow and leaves the registers and sp unchanged
C14_PopUnderflow ==
    [][(Executing("Pop") /\ last = NoLast)
          => /\ status' = "err"
             /\ err' = VMError("StackUnderflow", 0)
             /\ registers' = registers
             /\ sp' = sp]_vars

\* the bytes of MOV r0, 42; STORE r0, 0x50; MOV r0, 0; LOAD r1, 0x50; HALT
MemoryProgram == EncodedProgram(TextMemory)

\* C15: STORE rX, a writes registers[X] to memory[a] and changes nothing else
\* but pc; LOAD rY, a sets registers[Y] to memory[a], so a LOAD after a STORE
\* to a reads the stored value although rX was overwritten in between; an
\* address a >= memory_size gives InvalidMemoryAccess(a) without any write
C15_StoreThenLoad ==
    /\ [][(Executing("Store") /\ ipc + 2 < MemLen(memory) /\ ValidReg(op.a)
           /\ memory[ipc + 2] < config.memory_size)
            => /\ status' = "running"
               /\ memory' = [memory EXCEPT ![memory[ipc + 2]] = registers[op.a]]
               /\ pc' = ipc + 3
               /\ UNCHANGED <<registers, sp, flags, call_stack>>]_vars
    /\ [][(Executing("Load") /\ ipc + 2 < MemLen(memory) /\ ValidReg(op.a)
           /\ memory[ipc + 2] < config.memory_size)
            => /\ status' = "running"
               /\ registers' = [registers EXCEPT ![op.a] = memory[memory[ipc + 2]]]
               /\ pc' = ipc + 3
               /\ UNCHANGED <<memory, sp, flags, call_stack>>]_vars
    /\ [][(status = "decoded" /\ op.k \in {"Load", "Store"} /\ ipc + 2 < MemLen(memory)
           /\ memory[ipc + 2] >= config.memory_size)
            => /\ status' = "err"
               /\ err' = VMError("InvalidMemoryAccess", memory[ipc + 2])
               /\ UNCHANGED <<registers, memory, sp, flags, call_stack>>]_vars
    /\ []((program = MemoryProgram /\ status = "ok")
            => (registers[1] = 42 /\ registers[0] = 0 /\ memory[80] = 42))

C15_Witness ==
    /\ program = MemoryProgram
    /\ status = "ok"
    /\ registers[0] = 0
    /\ registers[1] = 42
    /\ memory[80] = 42

\* C16: LDIDX and STIDX access memory at the operand byte plus registers[1],
\* a sum that does not wrap at 256; a sum >= memory_size gives
\* InvalidMemoryAccess(sum) and no access; STIDX rX, b then LDIDX rY, b with
\* r1 unchanged leaves registers[Y] with the value stored from rX
C16_IndexedAccess ==
    /\ [][(Executing("StIdx") /\ ipc + 2 < MemLen(memory) /\ ValidReg(1) /\ ValidReg(op.a))
            => LET addr == memory[ipc + 2] + registers[1]
               IN  IF addr >= config.memory_size
                   THEN /\ status' = "err"
                        /\ err' = VMError("InvalidMemoryAccess", addr)
                        /\ UNCHANGED <<registers, memory>>
                   ELSE /\ status' = "running"
                        /\ memory' = [memory EXCEPT ![addr] = registers[op.a]]
                        /\ UNCHANGED registers]_vars
    /\ [][(Executing("LdIdx") /\ ipc + 2 < MemLen(memory) /\ ValidReg(1) /\ ValidReg(op.a))
            => LET addr == memory[ipc + 2] + registers[1]
               IN  IF addr >= config.memory_size
                   THEN /\ status' = "err"
                        /\ err' = VMError("InvalidMemoryAccess", addr)
                        /\ UNCHANGED <<registers, memory>>
                   ELSE /\ status' = "running"
                        /\ registers' = [registers EXCEPT ![op.a] = memory[addr]]
                        /\ UNCHANGED memory]_vars
    /\ []((program = <<4, 0, 42, 35, 0, 9, 34, 2, 9>> /\ status = "running"
           /\ last.op.k = "LdIdx" /\ last.at = 6)
            => (registers[2] = 42 /\ memory[9] = 42))

\* MOV r1, 200; STIDX r0, 100 on the 256-byte memory: the sum 300 is reported
C16_Witness ==
    /\ program = <<4, 1, 200, 35, 0, 100>>
    /\ config = DefaultConfig
    /\ status = "err"
    /\ err = VMError("InvalidMemoryAccess", 300)
    /\ memory = CopyFromSlice(NewMemory(config), program)

\* C17: JMP sets pc to its operand; JEQ, JGT and JNE at address a set pc to
\* their operand when Zero is set, Greater is set, Zero is clear respectively
\* and to a + 2 otherwise; none changes registers, memory, flags, sp or
\* call_stack
C17_Jumps ==
    [][(status = "decoded" /\ op.k \in {"Jmp", "Jeq", "Jgt", "Jne"}
        /\ ipc + 1 < MemLen(memory))
          => LET addr == memory[ipc + 1]
                 taken == CASE op.k = "Jmp" -> TRUE
                            [] op.k = "Jeq" -> flags % 2 = 1
                            [] op.k = "Jgt" -> (flags \div 2) % 2 = 1
                            [] op.k = "Jne" -> flags % 2 = 0
             IN  /\ status' = "running"
                 /\ pc' = (IF taken THEN addr ELSE ipc + 2)
                 /\ UNCHANGED <<registers, memory, flags, sp, call_stack>>]_vars

\* MOV r0, 1; CMP r1, r0; JEQ 10; INC r2; HALT: the JEQ fell through
C17_Witness ==
    /\ program = <<4, 0, 1, 67, 1, 0, 65, 10, 1, 2, 255>>
    /\ last.op.k = "Jeq"
    /\ status = "running"
    /\ flags = 0
    /\ pc = 8

\* C18: after CMP rA, rB bit 0 of flags says registers[A] = registers[B] and
\* bit 1 says registers[A] > registers[B], whatever the flags were before;
\* CMP changes no register
C18_CmpFlags ==
    [][(Executing("Cmp") /\ ValidReg(op.a) /\ ValidReg(op.b))
          => /\ (flags' % 2 = 1) <=> (registers[op.a] = registers[op.b])
             /\ ((flags' \div 2) % 2 = 1) <=> (registers[op.a] > registers[op.b])
             /\ registers' = registers]_vars

\* MOV r0, 1; CMP r0, r0; CMP r0, r1; CMP r1, r0: the third CMP, reached with
\* Greater set, has cleared both flags
C18_Witness ==
    /\ program = <<4, 0, 1, 67, 0, 0, 67, 0, 1, 67, 1, 0>>
    /\ last.op.k = "Cmp"
    /\ last.at = 9
    /\ status = "running"
    /\ flags = 0

\* C19: HALT sets pc to memory_size and changes nothing else; run then
\* returns Ok without executing anything more
C19_Halt ==
    /\ [][Executing("Halt")
            => /\ pc' = config.memory_size
               /\ status' = "running"
               /\ UNCHANGED <<registers, memory, sp, flags, call_stack>>]_vars
    /\ [][(status = "running" /\ last.op.k = "Halt")
            => /\ status' = "ok"
               /\ UNCHANGED <<registers, memory, sp, flags, call_stack, pc>>]_vars
    /\ [][status = "ok" => UNCHANGED <<registers, memory, sp, flags, call_stack, pc>>]_vars

\* HALT; MOV r0, 42 has returned Ok and the MOV was not executed
C19_Witness ==
    /\ program = <<255, 4, 0, 42>>
    /\ status = "ok"
    /\ last.op.k = "Halt"
    /\ registers[0] = 0
    /\ pc = config.memory_size

\* C20: RET on an empty call_stack raises no fault, changes nothing and
\* execution goes on with the byte after the RET
C20_RetOnEmptyCallStack ==
    [][(Executing("Ret") /\ call_stack = <<>>)
          => /\ status' = "running"
             /\ pc' = ipc + 1
             /\ UNCHANGED <<call_stack, registers, memory, sp, flags>>]_vars

\* RET; MOV r0, 42: the MOV after the RET has been executed
C20_Witness ==
    /\ program = <<19, 4, 0, 42>>
    /\ status = "running"
    /\ last.op.k = "Mov"
    /\ last.at = 1
    /\ registers[0] = 42
    /\ call_stack = <<>>

----------------------------------------------------------------------------
(* Properties of the assembler and of the shared encoding                  *)

\* C9: assembling the same text again gives the same result: any two
\* assemble calls with equal input text return equal bytes
C9_AssembleDeterministic ==
    \A i, j \in DOMAIN asm_calls :
        asm_calls[i].code = asm_calls[j].code => asm_calls[i].res = asm_calls[j].res

\* the operation a mnemonic names (the encoding table)
KindOfMnemonic(m) ==
    CASE m = Chars("INC") -> "Inc"
      [] m = Chars("DEC") -> "Dec"
      [] m = Chars("OUT") -> "Out"
      [] m = Chars("MOV") -> "Mov"
      [] m = Chars("PUSH") -> "Push"
      [] m = Chars("POP") -> "Pop"
      [] m = Chars("CALL") -> "Call"
      [] m = Chars("RET") -> "Ret"
      [] m = Chars("LOAD") -> "Load"
      [] m = Chars("STORE") -> "Store"
      [] m = Chars("LDIDX") -> "LdIdx"
      [] m = Chars("STIDX") -> "StIdx"
      [] m = Chars("ADD") -> "Add"
      [] m = Chars("SUB") -> "Sub"
      [] m = Chars("MUL") -> "Mul"
      [] m = Chars("DIV") -> "Div"
      [] m = Chars("JMP") -> "Jmp"
      [] m = Chars("JEQ") -> "Jeq"
      [] m = Chars("JGT") -> "Jgt"
      [] m = Chars("CMP") -> "Cmp"
      [] m = Chars("JNE") -> "Jne"
      [] m \in {Chars("HALT"), Chars("HLT")} -> "Halt"
      [] OTHER -> "Unknown"

\* the value an operand token stands for: a register index or a number
TokenValue(tok) ==
    IF starts_with(tok, <<"r">>) THEN u8_from_str(Tail(tok))
    ELSE IF starts_with(tok, <<"0", "x">>)
    THEN u8_from_str_radix(SubSeq(tok, 3, Len(tok)), 16)
    ELSE u8_from_str(tok)

\* the operand values the CPU decoded for the instruction in `l`: those fetch
\* put into the Opcode, then the one execute read at pc
DecodedOperands(l) ==
    CASE l.op.k \in {"Inc", "Dec", "Out", "Push", "Pop"} -> <<l.op.a>>
      [] l.op.k \in {"Mov", "Add", "Sub", "Mul", "Div", "Cmp"} -> <<l.op.a, l.op.b>>
      [] l.op.k \in {"Load", "Store", "LdIdx", "StIdx"} -> <<l.op.a, l.arg>>
      [] l.op.k \in JumpKinds -> <<l.arg>>
      [] OTHER -> <<>>

\* the instruction at address 0 has been executed, the next one not yet fetched
FirstInstructionDone ==
    /\ status \in {"running", "err", "ok"}
    /\ last.op # NoOpcode
    /\ last.at = 0
    /\ ipc = 0

\* the CPU decoded, from the bytes of e, the instruction of e and used up
\* exactly those bytes
RoundTrip(e) ==
    /\ last.op.k = KindOfMnemonic(e.inst.opcode)
    /\ DecodedOperands(last)
         = [i \in DOMAIN e.inst.operands |-> TokenValue(e.inst.operands[i])]
    /\ status = "running" =>
         CASE last.op.k \in {"Jmp", "Call"} -> pc = last.arg
           [] last.op.k \in {"Jeq", "Jgt", "Jne"} -> pc \in {last.arg, Len(e.bytes)}
           [] last.op.k = "Halt" -> pc = config.memory_size
           [] OTHER -> pc = Len(e.bytes)

\* C10: for every instruction an encoder accepts, the CPU decodes the emitted
\* bytes to the same operation and operand values and consumes exactly the
\* emitted bytes
C10_RoundTrip ==
    \A e \in Encodings : (program = e.bytes /\ FirstInstructionDone) => RoundTrip(e)

\* the number of bytes pass 2 emits for the instruction lines of `lines` that
\* precede the line defining `label`, counted from `offset`
RECURSIVE ScanForLabel(_, _, _, _)
ScanForLabel(labels, lines, label, offset) ==
    IF lines = <<>> THEN [found |-> FALSE, offset |-> offset]
    ELSE IF Len(lines) = 1
    THEN LET line == trim(lines[1])
             parts == split_whitespace(trim(FirstPart(line, ";")))
         IN  IF line = <<>> \/ starts_with(line, <<";">>) \/ parts = <<>>
             THEN [found |-> FALSE, offset |-> offset]
             ELSE IF ends_with(line, ":")
             THEN [found |-> trim(SubSeq(line, 1, Len(line) - 1)) = label,
                   offset |-> offset]
             ELSE LET inst == Instruction(to_uppercase(parts[1]),
                                          [i \in 1..(Len(parts) - 1) |->
                                              RemoveCommas(parts[i + 1])])
                  IN  [found |-> FALSE,
                       offset |-> offset + Len(instruction_to_bytes(labels, inst).val)]
    ELSE LET half == Len(lines) \div 2
             first == ScanForLabel(labels, SubSeq(lines, 1, half), label, offset)
         IN  IF first.found THEN first
             ELSE ScanForLabel(labels, SubSeq(lines, half + 1, Len(lines)), label,
                               first.offset)

ByteOffsetOfLabel(labels, lines, label, offset) ==
    ScanForLabel(labels, lines, label, offset).offset

\* C11: after a new Assembler assembled a text, the address pass 1 recorded
\* for every label is the byte offset, in the bytes pass 2 emitted, of the
\* first instruction after the label line
C11_LabelAddresses ==
    (Len(asm_calls) = 1 /\ asm_calls[1].res.ok)
        => \A l \in DOMAIN assembler.labels :
              assembler.labels[l]
                = ByteOffsetOfLabel(assembler.labels, asm_calls[1].code, l, 0)

JumpMnemonics == {Chars("JMP"), Chars("JEQ"), Chars("JGT"), Chars("CALL")}

\* the opcode byte of a jump or call mnemonic
JumpOpcode(m) ==
    CASE m = Chars("JMP") -> 64
      [] m = Chars("JEQ") -> 65
      [] m = Chars("JGT") -> 66
      [] m = Chars("CALL") -> 18

\* the value of a decimal or 0x-hexadecimal literal that fits a byte, else -1
LiteralValue(tok) ==
    IF starts_with(tok, <<"0", "x">>)
    THEN u8_from_str_radix(SubSeq(tok, 3, Len(tok)), 16)
    ELSE u8_from_str(tok)

\* the resolution order as stated: label, else literal, else UndefinedLabel
StatedJumpTarget(labels, tok) ==
    IF tok \in DOMAIN labels THEN Ok(labels[tok])
    ELSE IF LiteralValue(tok) # -1 THEN Ok(LiteralValue(tok))
    ELSE Err(AssemblerError("UndefinedLabel", tok))

\* C21: a jump or call target is resolved as a label's address, else as the
\* value of a decimal or 0x literal, else assemble fails with
\* UndefinedLabel(token): so does every jump and call of the first text a new
\* Assembler was given, and so does assemble on a text of one such line
C21_JumpTargetResolution ==
    Len(asm_calls) = 1 =>
        /\ \A i \in DOMAIN assembler.instructions :
              LET inst == assembler.instructions[i]
              IN  (inst.opcode \in JumpMnemonics /\ Len(inst.operands) = 1)
                    => instruction_to_bytes(assembler.labels, inst)
                         = Bytes1(JumpOpcode(inst.opcode),
                                  StatedJumpTarget(assembler.labels, inst.operands[1]))
        /\ (Len(assembler.instructions) = 1
            /\ assembler.instructions[1].opcode \in JumpMnemonics
            /\ Len(assembler.instructions[1].operands) = 1)
              => asm_calls[1].res
                   = Bytes1(JumpOpcode(assembler.instructions[1].opcode),
                            StatedJumpTarget(assembler.labels,
                                             assembler.instructions[1].operands[1]))

\* C23: a text that defines the same label on two lines makes assemble fail
\* with InvalidLabel and emit no bytecode
C23_DuplicateLabel ==
    \A i \in DOMAIN asm_calls :
        asm_calls[i].code = TextDuplicateLabel
            => /\ ~asm_calls[i].res.ok
               /\ asm_calls[i].res.err.k = "InvalidLabel"

\* the register names of the language
RegisterNames == { <<"r", d>> : d \in {"0", "1", "2", "3", "4", "5", "6", "7"} }

\* how many leading operands of a mnemonic are registers in the encoding table
RegisterOperands(m) ==
    CASE m \in {Chars("ADD"), Chars("SUB"), Chars("MUL"), Chars("DIV"), Chars("CMP")} -> 2
      [] m \in {Chars("INC"), Chars("DEC"), Chars("OUT"), Chars("PUSH"), Chars("POP"),
                Chars("MOV"), Chars("LOAD"), Chars("STORE"), Chars("LDIDX"),
                Chars("STIDX")} -> 1
      [] OTHER -> 0

\* the register positions of an instruction that it has operands for
RegisterPositions(inst) ==
    {i \in DOMAIN inst.operands : i <= RegisterOperands(inst.opcode)}

\* an encoder got past its mnemonic and operand-count checks
ReachedOperands(res) ==
    res.err.k \notin {"InvalidInstruction", "InvalidNumberOfOperands", "SyntaxError"}

\* the first register position of inst whose token is not in `good` makes
\* the encoder fail with InvalidRegister(token)
FirstBadRegisterFails(inst, res, good(_)) ==
    \A i \in RegisterPositions(inst) :
        (/\ ReachedOperands(res)
         /\ ~good(inst.operands[i])
         /\ \A j \in RegisterPositions(inst) : j < i => good(inst.operands[j]))
            => res = Err(AssemblerError("InvalidRegister", inst.operands[i]))

IsRegisterName(tok) == tok \in RegisterNames

\* r followed by a decimal number below 8 as u8::from_str reads it
IsRegisterNumber(tok) == starts_with(tok, <<"r">>) /\ TokenValue(tok) \in 0 .. 7

TableOpcode(m) ==
    CASE m = Chars("INC") -> 1
      [] m = Chars("DEC") -> 2
      [] m = Chars("OUT") -> 3
      [] m = Chars("MOV") -> 4
      [] m = Chars("PUSH") -> 16
      [] m = Chars("POP") -> 17
      [] m = Chars("CALL") -> 18
      [] m = Chars("RET") -> 19
      [] m = Chars("LOAD") -> 32
      [] m = Chars("STORE") -> 33
      [] m = Chars("LDIDX") -> 34
      [] m = Chars("STIDX") -> 35
      [] m = Chars("ADD") -> 48
      [] m = Chars("SUB") -> 49
      [] m = Chars("MUL") -> 50
      [] m = Chars("DIV") -> 51
      [] m = Chars("JMP") -> 64
      [] m = Chars("JEQ") -> 65
      [] m = Chars("JGT") -> 66
      [] m = Chars("CMP") -> 67
      [] m = Chars("JNE") -> 68
      [] m \in {Chars("HALT"), Chars("HLT")} -> 255

\* the operands of a mnemonic in the encoding table
TableOperands(m) ==
    CASE m \in {Chars("INC"), Chars("DEC"), Chars("OUT"), Chars("PUSH"), Chars("POP")}
            -> <<"reg">>
      [] m = Chars("MOV") -> <<"reg", "byte">>
      [] m \in {Chars("LOAD"), Chars("STORE")} -> <<"reg", "addr">>
      [] m \in {Chars("LDIDX"), Chars("STIDX")} -> <<"reg", "reg-or-addr">>
      [] m \in {Chars("ADD"), Chars("SUB"), Chars("MUL"), Chars("DIV"), Chars("CMP")}
            -> <<"reg", "reg">>
      [] m \in {Chars("CALL"), Chars("JMP"), Chars("JEQ"), Chars("JGT"), Chars("JNE")}
            -> <<"addr">>
      [] OTHER -> <<>>

\* a token that is valid for an operand of the table
ValidOperand(kind, tok) ==
    CASE kind = "reg" -> tok \in RegisterNames
      [] kind \in {"byte", "addr"} -> LiteralValue(tok) \in Byte
      [] OTHER -> tok \in RegisterNames \/ LiteralValue(tok) \in Byte

\* the instruction has the table's number of operands, each valid
TableInstruction(inst) ==
    /\ Len(inst.operands) = Len(TableOperands(inst.opcode))
    /\ \A i \in DOMAIN inst.operands :
          ValidOperand(TableOperands(inst.opcode)[i], inst.operands[i])

\* the table's opcode byte followed by the operand values in source order
TableBytes(inst) ==
    <<TableOpcode(inst.opcode)>>
    \o [i \in DOMAIN inst.operands |-> TokenValue(inst.operands[i])]

\* C24: every mnemonic of the encoding table with the table's number of valid
\* operands assembles to the table's opcode byte followed by its operand bytes
C24_EncodingTable ==
    \A i \in DOMAIN encoded :
        TableInstruction(encoded[i].inst)
            => encoded[i].by_assemble = Ok(TableBytes(encoded[i].inst))

----------------------------------------------------------------------------
(* Properties of the CPU, continued                                        *)

\* C25: INC rX leaves registers[X] = (old + 1) mod 256 and DEC rX leaves
\* registers[X] = (old - 1) mod 256; no other register, no memory cell and
\* no flag changes
C25_IncDecWrap ==
    [][(status = "decoded" /\ op.k \in {"Inc", "Dec"} /\ ValidReg(op.a))
          => /\ registers' = [registers EXCEPT ![op.a] =
                                IF op.k = "Inc" THEN (@ + 1) % 256 ELSE (@ - 1) % 256]
             /\ memory' = memory
             /\ flags' = flags
             /\ status' = "running"]_vars

\* MOV r0, 255; INC r0; DEC r0: the INC has wrapped to 0, the DEC back to 255
C25_Witness ==
    /\ program = <<4, 0, 255, 1, 0, 2, 0, 2, 0, 255>>
    /\ status = "running"
    /\ last.op = Opcode("Dec", 0, 0)
    /\ last.at = 5
    /\ last.registers[0] = 0
    /\ registers[0] = 255

\* the operations whose first operand, or first two operands, are registers
OneRegisterKinds ==
    {"Inc", "Dec", "Out", "Mov", "Push", "Pop", "Load", "Store", "LdIdx", "StIdx"}

TwoRegisterKinds == {"Add", "Sub", "Mul", "Div", "Cmp"}

\* the decoded instruction names a register index >= num_registers
BadRegisterIndex(o) ==
    \/ o.k \in OneRegisterKinds \cup TwoRegisterKinds /\ o.a >= config.num_registers
    \/ o.k \in TwoRegisterKinds /\ o.b >= config.num_registers

\* C26: an instruction whose register operand byte is >= num_registers makes
\* run return InvalidRegister(index) with the registers unchanged
C26_RegisterIndexChecked ==
    [][(status = "decoded" /\ BadRegisterIndex(op))
          => /\ status' = "err"
             /\ err' = VMError("InvalidRegister",
                                IF op.a >= config.num_registers THEN op.a ELSE op.b)
             /\ registers' = registers]_vars

\* the number of operand bytes fetch and execute read for an opcode byte
OperandBytes(byte) ==
    CASE byte \in TwoOperandBytes -> 2
      [] byte \in {32, 33, 34, 35} -> 2
      [] byte \in OneOperandBytes -> 1
      [] byte \in {18, 64, 65, 66, 68} -> 1
      [] OTHER -> 0

\* C27: when the opcode fetched last has an operand byte at an address >=
\* memory_size, the run ends normally with pc >= memory_size
C27_OperandPastEndHalts ==
    (/\ status \in {"ok", "err", "panic"}
     /\ Len(program) <= MemLen(memory)
     /\ ipc + OperandBytes(memory[ipc]) >= MemLen(memory))
        => status = "ok" /\ pc >= config.memory_size

\* the opcode bytes of the encoding table
TableOpcodeBytes ==
    {1, 2, 3, 4, 16, 17, 18, 19, 32, 33, 34, 35, 48, 49, 50, 51, 64, 65, 66, 67, 68, 255}

\* C28: a byte fetched as an opcode makes run fault with InvalidOpcode(byte)
\* exactly when it is not an opcode of the encoding table; every table
\* opcode, JNE = 0x44 included, is decoded as its operation, and every
\* other byte, 0x00 included, is rejected
C28_InvalidOpcode ==
    /\ [][(status = "running" /\ pc < MemLen(memory))
            => IF memory[pc] \in TableOpcodeBytes
               THEN \/ status' = "panic"
                    \/ status' = "decoded" /\ op'.k = OpcodeKind(memory[pc])
                        /\ op'.k # "Unknown"
               ELSE status' = "decoded" /\ op' = Opcode("Unknown", memory[pc], 0)]_vars
    /\ [][status = "decoded"
            => IF op.k = "Unknown"
               THEN status' = "err" /\ err' = VMError("InvalidOpcode", op.a)
                    /\ op.a = memory[ipc]
               ELSE ~(status' = "err" /\ err'.k = "InvalidOpcode")]_vars
    /\ [](status = "decoded" => (op.k = "Jne" <=> memory[ipc] = 68))

\* JNE 3 was decoded and taken, and the byte 7 at address 3 was rejected
C28_Witness ==
    /\ program = <<68, 3, 0, 7>>
    /\ status = "err"
    /\ err = VMError("InvalidOpcode", 7)
    /\ last.op = Opcode("Unknown", 7, 0)
    /\ last.at = 3

\* C29 as stated: every entry of call_stack is < memory_size
C29_ReturnAddressesInMemory ==
    \A i \in DOMAIN call_stack : call_stack[i] < config.memory_size

\* C29, amended: every entry of call_stack is <= memory_size, and an entry
\* is only ever added by a CALL, as the address after the CALL's operand
C29_ReturnAddresses ==
    /\ [](\A i \in DOMAIN call_stack :
            call_stack[i] >= 2 /\ call_stack[i] <= config.memory_size)
    /\ [][\/ call_stack' = call_stack
          \/ /\ status = "decoded" /\ op.k = "Call"
             /\ call_stack' = Append(call_stack, ipc + 2)
          \/ /\ status = "decoded" /\ op.k = "Ret" /\ call_stack # <<>>
             /\ call_stack' = SubSeq(call_stack, 1, Len(call_stack) - 1)]_vars

\* the CALL in the last two bytes of memory pushed memory_size
C29_Witness ==
    /\ program = <<64, 10, 0, 19, 0, 0, 0, 0, 0, 0, 18, 3>>
    /\ config = SmallConfig
    /\ call_stack = <<config.memory_size>>
    /\ last.op.k = "Call"
    /\ last.at = 10

\* C30: a CPU that has just been created has sp = memory_size, 256 for the
\* default configuration, whatever sp_start is
C30_InitialSp ==
    status = "new"
        => /\ sp = config.memory_size
           /\ config = DefaultConfig => sp = 256

----------------------------------------------------------------------------
(* Properties of the assembler, continued                                  *)

\* C31: the result of an assemble call on an Assembler instance is the result
\* a new Assembler gives for the same text, whatever was assembled on the
\* instance before
C31_AssembleIndependentOfHistory ==
    \A i \in DOMAIN asm_calls :
        asm_calls[i].res = assemble(NewAssembler, asm_calls[i].code).res

\* C32: every address in the label map lies in [0, 256), and the operand byte
\* emitted for a jump to a label is the label's byte offset in the bytecode:
\* the final jump of TextFarLabel, to the label right before it, is emitted
\* with the offset of its own opcode byte, not with that offset modulo 256
C32_LabelAddressesAreBytes ==
    Len(asm_calls) = 1
        => /\ \A l \in DOMAIN assembler.labels : assembler.labels[l] \in 0 .. 255
           /\ (asm_calls[1].code = TextFarLabel /\ asm_calls[1].res.ok)
                 => LET bytecode == asm_calls[1].res.val
                    IN  bytecode[Len(bytecode)] = Len(bytecode) - 2

----------------------------------------------------------------------------
(* Properties of the CPU: the two stacks, run after Ok, the flags          *)

\* C33: PUSH and POP never change call_stack, CALL and RET never change sp
\* or a memory cell; the subroutine PUSH r0; RET called from address 0
\* returns to address 2 with its push still on the data stack
C33_StacksIndependent ==
    /\ [][(status = "decoded" /\ op.k \in {"Push", "Pop"})
            => call_stack' = call_stack]_vars
    /\ [][(status = "decoded" /\ op.k \in {"Call", "Ret"})
            => sp' = sp /\ memory' = memory]_vars
    /\ []((program = <<18, 4, 255, 0, 16, 0, 19>> /\ status = "running"
           /\ last.op.k = "Ret")
            => pc = 2 /\ call_stack = <<>> /\ sp = InitialSp(config) - 1)

C33_Witness ==
    /\ program = <<18, 4, 255, 0, 16, 0, 19>>
    /\ status = "running"
    /\ last.op.k = "Ret"
    /\ last.at = 6
    /\ pc = 2
    /\ sp = InitialSp(config) - 1

\* C34: a PUSH that does not fault stores the register one cell below sp and
\* a POP that does not fault reads the cell at sp back and steps sp up, so
\* values come back in reverse order: after PUSH r0 (7); PUSH r1 (9);
\* POP r2; POP r3, r2 = 9, r3 = 7 and sp is where it was
C34_StackIsLifo ==
    /\ [][(status = "decoded" /\ op.k = "Push" /\ status' = "running")
            => /\ sp' = sp - 1
               /\ memory' = [memory EXCEPT ![sp - 1] = registers[op.a]]
               /\ registers' = registers]_vars
    /\ [][(status = "decoded" /\ op.k = "Pop" /\ status' = "running")
            => /\ sp' = sp + 1
               /\ registers' = [registers EXCEPT ![op.a] = memory[sp]]
               /\ memory' = memory]_vars
    /\ []((program = <<4, 0, 7, 4, 1, 9, 16, 0, 16, 1, 17, 2, 17, 3, 255>>
           /\ status = "ok")
            => registers[2] = 9 /\ registers[3] = 7 /\ sp = InitialSp(config))

C34_Witness ==
    /\ program = <<4, 0, 7, 4, 1, 9, 16, 0, 16, 1, 17, 2, 17, 3, 255>>
    /\ status = "ok"
    /\ registers[2] = 9
    /\ registers[3] = 7
    /\ sp = InitialSp(config)
    /\ memory[sp - 1] = 7
    /\ memory[sp - 2] = 9

\* C35: a CALL at address a pushes a + 2, a RET on a non-empty call_stack
\* pops the newest entry into pc, and nothing else changes the depth of
\* call_stack; the calls at 0 and 3 of CALL 3; HALT; CALL 6; RET; RET return
\* to 5 and then to 2
C35_NestedCalls ==
    /\ [][(status = "decoded" /\ op.k = "Call" /\ status' = "running")
            => call_stack' = Append(call_stack, ipc + 2)]_vars
    /\ [][(status = "decoded" /\ op.k = "Ret" /\ call_stack # <<>>)
            => /\ pc' = call_stack[Len(call_stack)]
               /\ call_stack' = SubSeq(call_stack, 1, Len(call_stack) - 1)]_vars
    /\ [][Len(call_stack') - Len(call_stack) =
            CASE status = "decoded" /\ op.k = "Call" /\ status' = "running" -> 1
              [] status = "decoded" /\ op.k = "Ret" /\ call_stack # <<>> -> -1
              [] OTHER -> 0]_vars
    /\ []((program = <<18, 3, 255, 18, 6, 19, 19>> /\ status = "running"
           /\ last.op.k = "Ret")
            => \/ last.at = 6 /\ pc = 5 /\ call_stack = <<2>>
               \/ last.at = 5 /\ pc = 2 /\ call_stack = <<>>)

C35_Witness ==
    /\ program = <<18, 3, 255, 18, 6, 19, 19>>
    /\ status = "running"
    /\ last.op.k = "Ret"
    /\ last.at = 5
    /\ pc = 2
    /\ call_stack = <<>>

\* what run and load_program leave alone on a CPU whose pc is at the end
Untouched == <<registers, sp, flags, call_stack, pc, out, last>>

\* C37: once run has returned Ok, pc is at the end of memory; run called
\* again returns Ok at once and changes nothing, load_program changes memory
\* only, and the program loaded then (INC r3; INC r3; HALT) is never executed
C37_RunAfterOk ==
    /\ [](status = "ok" => pc >= config.memory_size)
    /\ [][status = "ok"
            => /\ UNCHANGED Untouched
               /\ \/ status' = "running" /\ memory' = memory
                  \/ status' = "loaded" /\ memory' = CopyFromSlice(memory, program')]_vars
    /\ [][(status \in {"loaded", "running"} /\ pc >= config.memory_size)
            => /\ UNCHANGED <<Untouched, memory>>
               /\ status' = IF status = "loaded" THEN "running" ELSE "ok"]_vars
    /\ [](program = <<1, 3, 1, 3, 255>>
            => status \in {"loaded", "running", "ok"} /\ pc >= config.memory_size)

\* run has returned Ok a second time, after INC r3; INC r3; HALT was loaded
C37_Witness ==
    /\ program = <<1, 3, 1, 3, 255>>
    /\ status = "ok"
    /\ SubSeq([i \in 1..5 |-> memory[i - 1]], 1, 5) = program
    /\ registers = last.registers
    /\ last.op.k = "Halt"
    /\ pc = config.memory_size

\* C38: flags is 0 on a new CPU, changes only when a CMP executes, and is
\* always 0, 1 or 2: bits 2..7 are zero and Zero and Greater are never set
\* together
C38_Flags ==
    /\ [](status = "new" => flags = 0)
    /\ [](flags \in {0, 1, 2})
    /\ [](~(ZeroFlag(flags) /\ GreaterFlag(flags)))
    /\ [][flags' # flags => (status = "decoded" /\ op.k = "Cmp")]_vars

\* a CMP of a larger with a smaller register has set Greater alone
C38_Witness ==
    /\ last.op.k = "Cmp"
    /\ status = "running"
    /\ last.registers[last.op.a] > last.registers[last.op.b]
    /\ flags = 2

\* the decoded instruction transfers control: JMP, CALL, a taken conditional
\* jump, or RET on a non-empty call_stack
TransfersControl ==
    \/ op.k \in {"Jmp", "Call"}
    \/ op.k = "Jeq" /\ ZeroFlag(flags)
    \/ op.k = "Jgt" /\ GreaterFlag(flags)
    \/ op.k = "Jne" /\ ~ZeroFlag(flags)
    \/ op.k = "Ret" /\ call_stack # <<>>

\* C36: every executed instruction that does not transfer control leaves pc
\* above the address it was fetched from, and a run, from its start, either
\* meets a JMP, JEQ, JGT, JNE, CALL or RET or eventually returns, Ok or a
\* fault
C36_StraightLineReturns ==
    /\ [][(status = "decoded" /\ ~TransfersControl) => pc' > ipc]_vars
    /\ (status = "running" /\ last = NoLast)
          ~> \/ status \in {"ok", "err"}
             \/ status = "decoded" /\ op.k \in JumpKinds \cup {"Ret"}

====
